---- MODULE Spec2Model ----
(***************************************************************************)
(* Model of the registry coordination layer of psarna/reg: the blob upload *)
(* session state machine over the object store's multipart protocol, the   *)
(* manifest write and read paths, and the metadata index behind them.      *)
(*                                                                         *)
(* Texts (keys, digests, names, tags) are strings.  Request and object      *)
(* bodies are sequences of tokens; every token stands for a fixed byte     *)
(* string whose length TokLen gives.  A link object holds a digest text.   *)
(***************************************************************************)
EXTENDS Integers, Sequences, FiniteSets, TLC

VARIABLES
    objects,          \* bucket: key -> bytes of the object stored there
    mpus,             \* bucket: multipart uploads, in the order they were begun
    sessions,         \* index table upload_sessions: upload_id -> row
    tags,             \* index table tags: rowid -> (repository, name)
    manifests,        \* index table manifests: tag_rowid -> manifest_json
    manifest_layers,  \* index table manifest_layers: set of rows
    layers,           \* index table layers: digest -> (media_type, size)
    openTx,           \* index: transactions begun and neither committed nor rolled back
    accepted,         \* history: upload id -> bodies of the chunks accepted
    lastPut,          \* history: (name, reference) -> bytes of the last put
    boot,             \* the Bootstrap run: scanner position, counters, workers
    calls,            \* requests, call by call: caller -> arguments and locals
    resp              \* the response that the last step of a request wrote

vars == <<objects, mpus, sessions, tags, manifests, manifest_layers, layers,
          openTx, accepted, lastPut, boot, calls, resp>>

indexVars == <<tags, manifests, manifest_layers, layers>>

---------------------------------------------------------------------------
(* Bounds *)

\* Multipart uploads begun in the bucket
MaxMpus == 3

\* Chunks accepted per upload session
MaxChunks == 2

---------------------------------------------------------------------------
(* Values *)

Nil == "nil"

\* partNumber := int32((offset / (5 * 1024 * 1024)) + 1)
PartSize == 5 * 1024 * 1024

\* COALESCE(s3_upload_id, '') of a row whose s3_upload_id is NULL
EmptyID == 0

\* Upload ids the handler mints (uuid.New()), and the references a client can
\* send: those and one the registry never issued.
UploadIds == {"uuid-1"}

References == UploadIds \cup {"uuid-x"}

Names == {"lib/app"}

\* Length in bytes of the byte string each token stands for.
TokLen(tok) ==
    CASE tok = "s" -> 100
      [] tok = "x" -> PartSize + 100
      [] tok = "m1" -> 202
      [] tok = "m2" -> 335
      [] tok = "junk" -> 8
      [] OTHER -> 1

RECURSIVE ByteLen(_)
ByteLen(bytes) ==
    IF bytes = <<>> THEN 0 ELSE TokLen(Head(bytes)) + ByteLen(Tail(bytes))

\* Request bodies of chunk requests: one shorter than a part, one that is
\* longer than a part and so crosses a part boundary.
Bodies == {<<"s">>, <<"x">>}

RECURSIVE SumsUpTo(_)
SumsUpTo(k) ==
    IF k = 0 THEN {0}
    ELSE LET prev == SumsUpTo(k - 1)
         IN  prev \cup {o + ByteLen(b) : o \in prev, b \in Bodies}

\* Start offsets a client may send in Content-Range.
Offsets == SumsUpTo(MaxChunks - 1) \cup {50}

HexChars == {"0", "1", "2", "3", "4", "5", "6", "7", "8", "9",
             "a", "b", "c", "d", "e", "f"}

\* go-digest: the registered algorithms and the length of their hex encoding
AlgoHexLen == [sha256 |-> 64, sha384 |-> 96, sha512 |-> 128]

\* Textual digests sent by clients.  DigestA is the SHA-256 of "hello".
HexA == "2cf24dba5fb0a30e26e83b2ac5b9e29e1b161e5c1fa7425e73043362938b9824"

DigestA == "sha256:" \o HexA

DigestNoColon == "sha256" \o HexA

Digests == {DigestA, DigestNoColon}

---------------------------------------------------------------------------
(* strings, go-digest *)

\* strings.Cut(s, sep): the text before and after the first sep
Cut(s, sep) ==
    LET at == {i \in 1..(Len(s) - Len(sep) + 1) :
                  SubSeq(s, i, i + Len(sep) - 1) = sep}
    IN  IF at # {}
        THEN LET i == CHOOSE i \in at : \A j \in at : i <= j
             IN  [before |-> SubSeq(s, 1, i - 1),
                  after |-> SubSeq(s, i + Len(sep), Len(s)), found |-> TRUE]
        ELSE [before |-> s, after |-> "", found |-> FALSE]

\* digest.Parse(s): s is algorithm ":" hex with a registered algorithm and a
\* hex part of that algorithm's length
Parse(s) ==
    LET c == Cut(s, ":")
    IN  IF /\ c.found
           /\ c.before \in DOMAIN AlgoHexLen
           /\ Len(c.after) = AlgoHexLen[c.before]
           /\ \A i \in 1..Len(c.after) : SubSeq(c.after, i, i) \in HexChars
        THEN [err |-> Nil, algo |-> c.before, hex |-> c.after]
        ELSE [err |-> "invalid digest", algo |-> "", hex |-> ""]

---------------------------------------------------------------------------
(* Object store *)

NewMpu(key) == [key |-> key, parts |-> <<>>, state |-> "open"]

\* CreateMultipartUpload: a new upload with an identifier of its own
CreateMultipartUpload(ms, key) == Append(ms, NewMpu(key))

\* UploadPart: stores the body as part partNumber, replacing an earlier part
\* of the same number
PutPart(parts, partNumber, body) ==
    [n \in DOMAIN parts \cup {partNumber} |->
        IF n = partNumber THEN body ELSE parts[n]]

UploadPartOk(ms, uploadId) ==
    uploadId \in 1..Len(ms) /\ ms[uploadId].state = "open"

UploadPart(ms, uploadId, partNumber, body) ==
    [ms EXCEPT ![uploadId].parts = PutPart(@, partNumber, body)]

\* ListParts: the part numbers in ascending order
RECURSIVE Ascending(_)
Ascending(S) ==
    IF S = {} THEN <<>>
    ELSE LET m == CHOOSE m \in S : \A x \in S : m <= x
         IN  <<m>> \o Ascending(S \ {m})

\* CompleteMultipartUpload: the object is the listed parts, concatenated
RECURSIVE Assemble(_, _)
Assemble(parts, numbers) ==
    IF numbers = <<>> THEN <<>>
    ELSE parts[Head(numbers)] \o Assemble(parts, Tail(numbers))

PutObject(os, key, body) ==
    [k \in DOMAIN os \cup {key} |-> IF k = key THEN body ELSE os[k]]

DeleteObject(os, key) == [k \in DOMAIN os \ {key} |-> os[k]]

\* Bytes held in the parts of a multipart upload
RECURSIVE PartBytes(_, _)
PartBytes(parts, numbers) ==
    IF numbers = {} THEN 0
    ELSE LET n == CHOOSE n \in numbers : TRUE
         IN  ByteLen(parts[n]) + PartBytes(parts, numbers \ {n})

---------------------------------------------------------------------------
(* Metadata index: upload sessions *)

\* INSERT INTO upload_sessions (upload_id, repository, s3_key)
CreateUploadSession(ss, uploadID, repository, s3Key) ==
    [u \in DOMAIN ss \cup {uploadID} |->
        IF u = uploadID
        THEN [repository |-> repository, s3_upload_id |-> EmptyID,
              s3_key |-> s3Key, uploaded_size |-> 0]
        ELSE ss[u]]

\* Variant: an update that binds the multipart upload and keeps uploaded_size
UpdateUploadSession_KeepsSize(ss, uploadID, s3UploadID, uploadedSize) ==
    [u \in DOMAIN ss |->
        IF u = uploadID THEN [ss[u] EXCEPT !.s3_upload_id = s3UploadID] ELSE ss[u]]

\* UPDATE upload_sessions SET s3_upload_id = ?, uploaded_size = ? WHERE upload_id = ?
UpdateUploadSession(ss, uploadID, s3UploadID, uploadedSize) ==
    [u \in DOMAIN ss |->
        IF u = uploadID
        THEN [ss[u] EXCEPT !.s3_upload_id = s3UploadID,
                           !.uploaded_size = uploadedSize]
        ELSE ss[u]]

\* SELECT COALESCE(s3_upload_id, ''), COALESCE(s3_key, ''), uploaded_size
GetUploadSession(ss, uploadID) ==
    IF uploadID \in DOMAIN ss
    THEN [err |-> Nil, s3UploadID |-> ss[uploadID].s3_upload_id,
          s3Key |-> ss[uploadID].s3_key,
          uploadedSize |-> ss[uploadID].uploaded_size]
    ELSE [err |-> "failed to get upload session", s3UploadID |-> EmptyID,
          s3Key |-> "", uploadedSize |-> 0]

\* DELETE FROM upload_sessions WHERE upload_id = ?
DeleteUploadSession(ss, uploadID) == [u \in DOMAIN ss \ {uploadID} |-> ss[u]]

---------------------------------------------------------------------------
(* Registry: blob uploads, the keys and the checks of its methods *)

\* fmt.Sprintf("uploads/%s.uploading", reference)
tempKey(reference) == "uploads/" \o reference \o ".uploading"

\* fmt.Sprintf("docker/registry/v2/blobs/sha256/%s/%s/data", hex[0:2], hex)
finalBlobKey(hex) ==
    "docker/registry/v2/blobs/sha256/" \o SubSeq(hex, 1, 2) \o "/" \o hex \o "/data"

partNumberOf(offset) == (offset \div PartSize) + 1

\* Variant: every offset is taken
offsetMismatch_Never(offset, uploadedSize) == FALSE

\* if offset != uploadedSize { return 0, "invalid offset" }
offsetMismatch(offset, uploadedSize) == offset # uploadedSize

---------------------------------------------------------------------------
(* Values of the requests of the upload endpoints *)

\* Content-Range headers, as the text "bytes=" start "-" end; <<>> is a
\* request without the header.
RangeHeader(start, end) == <<"bytes=", start, "-", end>>

NoRange == <<>>

MaxInt64 == "1<<63 - 1"

\* fmt.Sscanf(fRange, "bytes=%d-%d", &startOffset, &endOffset)
parseContentRange(fRange) ==
    IF Len(fRange) = 4 /\ fRange[1] = "bytes=" /\ fRange[3] = "-"
    THEN [start |-> fRange[2], end |-> fRange[4] + 1]
    ELSE [start |-> 0, end |-> MaxInt64]

\* Status of a chunk request whose coordinator call returned err
uploadChunkStatus(err) == IF err # Nil THEN 500 ELSE 202

\* Status of a cancel request whose coordinator call returned err
cancelUploadStatus(err) == IF err # Nil THEN 500 ELSE 204

StartFails == {"none", "CreateMultipartUpload", "CreateUploadSession"}

ChunkFails == {"none", "GetUploadSession", "CreateMultipartUpload", "ReadBody",
               "UploadPart", "UpdateUploadSession"}

CompleteFails == {"none", "GetUploadSession", "ListParts",
                  "CompleteMultipartUpload", "CopyObject", "DeleteObject",
                  "DeleteUploadSession"}

AbortFails == {"none", "GetUploadSession", "AbortMultipartUpload",
               "DeleteUploadSession"}

\* uploaded_size of the session row, -1 when there is no row
SizeOf(ss, reference) ==
    IF reference \in DOMAIN ss THEN ss[reference].uploaded_size ELSE -1

EmptyFn == [x \in {} |-> 0]

\* No Bootstrap run has been started
BootIdle == [pc |-> "idle", run |-> 0, running |-> EmptyFn]

---------------------------------------------------------------------------
(* Manifests: values *)

Tags == {"v1"}

\* Request bodies of manifest puts: two manifests and a body that is no JSON.
ManifestM1 == <<"m1">>
ManifestM2 == <<"m2">>
NotJSON == <<"junk">>

ManifestBodies == {ManifestM1, ManifestM2, NotJSON}

OCIManifest == "application/vnd.oci.image.manifest.v1+json"

LayerA == [digest |-> DigestA, mediaType |-> "application/octet-stream", size |-> 5]
LayerB == [digest |-> "sha256:486ea46224d1bb4fb680f34f7c9ad96a8f24ec88be73ea8e5a6c65260e9cb8a7",
           mediaType |-> "application/octet-stream", size |-> 5]

\* json.Unmarshal(bytes, &manifest)
Unmarshal(bytes) ==
    CASE bytes = ManifestM1 ->
            [err |-> Nil, mediaType |-> OCIManifest, layers |-> <<LayerA>>]
      [] bytes = ManifestM2 ->
            [err |-> Nil, mediaType |-> OCIManifest, layers |-> <<LayerB, LayerA>>]
      [] OTHER -> [err |-> "invalid character", mediaType |-> "", layers |-> <<>>]

\* The hex encoding of the SHA-256 of a byte string
Sha256Hex(bytes) ==
    CASE bytes = ManifestM1 ->
            "5788a87fb1d80fe0b8f57b8fc73393558b57daf63aff8027a6a0c39d9023c284"
      [] bytes = ManifestM2 ->
            "117c4abe77b6755744e6a69f4e85a5197f2487ea8d9383bf78794dc22bbba898"
      [] bytes = NotJSON ->
            "7ccfa1fbf3940e6f0c0375d87c0f9235a50514e14cb427bdfaf5077987b26ccf"

\* digest.FromBytes(p): the canonical (sha256) digest of p
FromBytes(bytes) == "sha256:" \o Sha256Hex(bytes)

\* Digest.Algorithm(), Digest.Hex(): the text before and after the ":"
Algorithm(d) == Cut(d, ":").before

Hex(d) == Cut(d, ":").after

---------------------------------------------------------------------------
(* Metadata index: tags and manifests *)

Ix == [tags |-> tags, manifests |-> manifests,
       manifest_layers |-> manifest_layers, layers |-> layers]

\* SELECT rowid FROM tags WHERE repository = ? AND name = ?
TagRowIDs(tt, repo, tag) ==
    {i \in 1..Len(tt) : tt[i].repository = repo /\ tt[i].name = tag}

\* INSERT INTO tags (repository, name) ... ON CONFLICT DO NOTHING
InsertTag(tt, repo, tag) ==
    IF TagRowIDs(tt, repo, tag) # {} THEN tt
    ELSE Append(tt, [repository |-> repo, name |-> tag])

\* SELECT manifest_json FROM manifests JOIN tags ON tags.rowid = manifests.tag_rowid
GetManifest(ix, repo, tag) ==
    LET rows == TagRowIDs(ix.tags, repo, tag) \cap DOMAIN ix.manifests
    IN  IF rows = {}
        THEN [err |-> "manifest not found", manifestJSON |-> <<>>]
        ELSE [err |-> Nil, manifestJSON |-> ix.manifests[CHOOSE i \in rows : TRUE]]

\* INSERT INTO layers ... ON CONFLICT(digest) DO UPDATE SET media_type, size
RECURSIVE UpsertLayers(_, _)
UpsertLayers(ll, ls) ==
    IF ls = <<>> THEN ll
    ELSE LET l == Head(ls)
             ll1 == [d \in DOMAIN ll \cup {l.digest} |->
                        IF d = l.digest
                        THEN [media_type |-> l.mediaType, size |-> l.size]
                        ELSE ll[d]]
         IN  UpsertLayers(ll1, Tail(ls))

\* Variant: the rows of the replaced manifest are not deleted
PutManifestTx_NoPurge(ix, repo, tag, manifestBytes, manifest) ==
    LET tt == InsertTag(ix.tags, repo, tag)
        tagRowID == CHOOSE i \in TagRowIDs(tt, repo, tag) : TRUE
        mm == [r \in DOMAIN ix.manifests \cup {tagRowID} |->
                  IF r = tagRowID THEN manifestBytes ELSE ix.manifests[r]]
        inserted == {[manifest_rowid |-> tagRowID,
                      layer_digest |-> manifest.layers[i].digest,
                      layer_index |-> i - 1] : i \in 1..Len(manifest.layers)}
    IN  [tags |-> tt, manifests |-> mm,
         manifest_layers |-> ix.manifest_layers \cup inserted,
         layers |-> UpsertLayers(ix.layers, manifest.layers)]

\* The statements of PutManifest, in one transaction that commits
PutManifestTx(ix, repo, tag, manifestBytes, manifest) ==
    LET tt == InsertTag(ix.tags, repo, tag)
        tagRowID == CHOOSE i \in TagRowIDs(tt, repo, tag) : TRUE
        mm == [r \in DOMAIN ix.manifests \cup {tagRowID} |->
                  IF r = tagRowID THEN manifestBytes ELSE ix.manifests[r]]
        ll == UpsertLayers(ix.layers, manifest.layers)
        \* manifests.tag_rowid is the table's INTEGER PRIMARY KEY, its rowid
        manifestRowID == tagRowID
        purged == {r \in ix.manifest_layers : r.manifest_rowid # manifestRowID}
        inserted == {[manifest_rowid |-> manifestRowID,
                      layer_digest |-> manifest.layers[i].digest,
                      layer_index |-> i - 1] : i \in 1..Len(manifest.layers)}
    IN  [tags |-> tt, manifests |-> mm, manifest_layers |-> purged \cup inserted,
         layers |-> ll]

\* Variant: the tag row inserted before the failing statement stays
PutManifest_KeepsTag(ix, repo, tag, manifestBytes, manifest, failed) ==
    IF failed
    THEN [ix |-> [ix EXCEPT !.tags = InsertTag(@, repo, tag)],
          err |-> "failed to store manifest"]
    ELSE [ix |-> PutManifestTx(ix, repo, tag, manifestBytes, manifest), err |-> Nil]

\* RegistryDB.PutManifest: all statements or, when one fails, none (rollback)
PutManifest(ix, repo, tag, manifestBytes, manifest, failed) ==
    IF failed
    THEN [ix |-> ix, err |-> "failed to store manifest"]
    ELSE [ix |-> PutManifestTx(ix, repo, tag, manifestBytes, manifest), err |-> Nil]

---------------------------------------------------------------------------
(* Registry: manifests.  st is the bucket's objects, ix the index. *)

\* "docker/registry/v2/blobs/sha256/%s/%s/data", hex[0:2], hex
manifestBlobKey(hex) ==
    "docker/registry/v2/blobs/sha256/" \o SubSeq(hex, 1, 2) \o "/" \o hex \o "/data"

\* ".../repositories/%s/_manifests/tags/%s/current/link"
metaKey(name, reference) ==
    "docker/registry/v2/repositories/" \o name \o "/_manifests/tags/" \o reference
        \o "/current/link"

\* Variant: the index link is written to the key of the tag's current link
metaIndexKey_Current(name, reference, algo, hex) == metaKey(name, reference)

\* ".../repositories/%s/_manifests/tags/%s/index/%s/%s/link"
metaIndexKey(name, reference, algo, hex) ==
    "docker/registry/v2/repositories/" \o name \o "/_manifests/tags/" \o reference
        \o "/index/" \o algo \o "/" \o hex \o "/link"

\* ".../repositories/%s/_manifests/revisions/%s/%s/link"
revisionsKey(name, algo, hex) ==
    "docker/registry/v2/repositories/" \o name \o "/_manifests/revisions/" \o algo
        \o "/" \o hex \o "/link"

getManifestSHA(os, repo, tag, fail) ==
    IF fail = "GetObjectLink" \/ metaKey(repo, tag) \notin DOMAIN os
    THEN [err |-> "error getting sha", sha |-> ""]
    ELSE LET text == os[metaKey(repo, tag)]
         IN  IF Parse(text).err # Nil
             THEN [err |-> "invalid digest", sha |-> ""]
             ELSE [err |-> Nil, sha |-> text]

putManifest(os, ix, name, reference, manifestBytes, fail) ==
    LET sha == FromBytes(manifestBytes)
        hex == Hex(sha)
        manifest == Unmarshal(manifestBytes)
    IN
    IF manifest.err # Nil
    THEN [os |-> os, ix |-> ix, err |-> "error unmarshalling manifest"]
    ELSE
    IF fail = "PutBlob"
    THEN [os |-> os, ix |-> ix, err |-> "put blob"]
    ELSE
    LET os1 == PutObject(os, manifestBlobKey(hex), manifestBytes)
    IN
    IF fail = "PutLink"
    THEN [os |-> os1, ix |-> ix, err |-> "put current/link"]
    ELSE
    LET os2 == PutObject(os1, metaKey(name, reference), sha)
    IN
    IF fail = "PutIndexLink"
    THEN [os |-> os2, ix |-> ix, err |-> "put index link"]
    ELSE
    LET os3 == PutObject(os2, metaIndexKey(name, reference, Algorithm(sha), Hex(sha)), sha)
    IN
    IF fail = "PutRevisionsLink"
    THEN [os |-> os3, ix |-> ix, err |-> "put revisions link"]
    ELSE
    LET os4 == PutObject(os3, revisionsKey(name, Algorithm(sha), Hex(sha)), sha)
    IN  [os |-> os4,
         ix |-> PutManifest(ix, name, reference, manifestBytes, manifest,
                            fail = "PutManifest").ix,
         err |-> Nil]

---------------------------------------------------------------------------
(* Values of the requests of the manifest endpoints *)

CommitIx(ix) ==
    /\ tags' = ix.tags
    /\ manifests' = ix.manifests
    /\ manifest_layers' = ix.manifest_layers
    /\ layers' = ix.layers

PutManifestFails == {"none", "PutBlob", "PutLink", "PutIndexLink",
                     "PutRevisionsLink", "PutManifest"}

GetManifestFails == {"none", "GetManifest", "GetObjectLink", "GetObjectBlob",
                     "PutManifest"}

---------------------------------------------------------------------------
(* strings: prefixes, suffixes and the byte order of texts *)

\* strings.HasPrefix, strings.HasSuffix
HasPrefix(s, prefix) ==
    Len(s) >= Len(prefix) /\ SubSeq(s, 1, Len(prefix)) = prefix

HasSuffix(s, suffix) ==
    Len(s) >= Len(suffix) /\ SubSeq(s, Len(s) - Len(suffix) + 1, Len(s)) = suffix

\* strings.TrimPrefix, strings.TrimSuffix
TrimPrefix(s, prefix) ==
    IF HasPrefix(s, prefix) THEN SubSeq(s, Len(prefix) + 1, Len(s)) ELSE s

TrimSuffix(s, suffix) ==
    IF HasSuffix(s, suffix) THEN SubSeq(s, 1, Len(s) - Len(suffix)) ELSE s

\* The characters of the texts of this model, in the order of their bytes
Alphabet == "-./0123456789:_abcdefghijklmnopqrstuvwxyz"

CharRank(c) == CHOOSE i \in 1..Len(Alphabet) : SubSeq(Alphabet, i, i) = c

\* a < b in the byte order (the object store's key order, SQLite's BINARY
\* collation), comparing from position i on; equal stretches of eight
\* characters are passed over at once
RECURSIVE LessFrom(_, _, _)
LessFrom(a, b, i) ==
    IF i > Len(a) THEN i <= Len(b)
    ELSE IF i > Len(b) THEN FALSE
    ELSE IF /\ i + 7 <= Len(a)
            /\ i + 7 <= Len(b)
            /\ SubSeq(a, i, i + 7) = SubSeq(b, i, i + 7)
    THEN LessFrom(a, b, i + 8)
    ELSE LET ca == SubSeq(a, i, i)
             cb == SubSeq(b, i, i)
         IN  IF ca = cb THEN LessFrom(a, b, i + 1)
             ELSE CharRank(ca) < CharRank(cb)

Less(a, b) == LessFrom(a, b, 1)

\* The sorted texts with x put after those of them that are below it
InsertText(sorted, x) ==
    LET k == Cardinality({i \in 1..Len(sorted) : Less(sorted[i], x)})
    IN  SubSeq(sorted, 1, k) \o <<x>> \o SubSeq(sorted, k + 1, Len(sorted))

\* The texts of a set in byte order
RECURSIVE SortTexts(_)
SortTexts(S) ==
    IF S = {} THEN <<>>
    ELSE LET x == CHOOSE x \in S : TRUE
         IN  InsertText(SortTexts(S \ {x}), x)

---------------------------------------------------------------------------
(* Tag and repository listings *)

\* ListObjectsV2 over all pages: the keys with the prefix, in key order
ListObjectsV2(os, prefix) == SortTexts({k \in DOMAIN os : HasPrefix(k, prefix)})

\* SELECT name FROM tags WHERE repository = ?  (rows in the order of the
\* primary-key index on (repository, name))
ListTags(tt, repo) ==
    SortTexts({tt[i].name : i \in {j \in 1..Len(tt) : tt[j].repository = repo}})

\* INSERT INTO tags ... ON CONFLICT DO NOTHING, for each tag
RECURSIVE PutTags(_, _, _)
PutTags(tt, repo, names) ==
    IF names = <<>> THEN tt
    ELSE PutTags(InsertTag(tt, repo, Head(names)), repo, Tail(names))

\* RegistryDB.PutTags with a failure at Begin, at an Exec of the loop or at
\* Commit.  The deferred function rolls back when the function's err is set;
\* the loop assigns the error of Exec to a variable of its own, so after a
\* failed Exec the transaction is neither committed nor rolled back.
PutTagsCall(tt, repo, names, fail) ==
    CASE fail = "PutTagsBegin" ->
            [tt |-> tt, err |-> "failed to start transaction", open |-> FALSE]
      [] fail = "PutTagsExec" /\ names # <<>> ->
            [tt |-> tt, err |-> "failed to register tag", open |-> TRUE]
      [] fail = "PutTagsCommit" ->
            [tt |-> tt, err |-> "failed to commit transaction", open |-> FALSE]
      [] OTHER -> [tt |-> PutTags(tt, repo, names), err |-> Nil, open |-> FALSE]

\* SELECT 1 FROM tags WHERE repository = ? AND name = ?
\* r.db.Get(...) == nil: a query that fails answers false, as no row does
Exists(tt, repo, tag, failed) == ~failed /\ TagRowIDs(tt, repo, tag) # {}

\* The rows of tags in the order of the primary-key index (repository, name)
RECURSIVE TagRowsInOrder(_)
TagRowsInOrder(rows) ==
    IF rows = {} THEN <<>>
    ELSE LET m == CHOOSE m \in rows : \A x \in rows \ {m} :
                      \/ Less(m.repository, x.repository)
                      \/ m.repository = x.repository /\ Less(m.name, x.name)
         IN  <<m>> \o TagRowsInOrder(rows \ {m})

\* SELECT repository FROM tags WHERE repository > ? LIMIT ?
\* with the token of the last row returned, Nil when no row is returned.
\* A negative LIMIT is no limit.
ListRepositories(tt, continuationToken, n) ==
    LET token == IF continuationToken = Nil THEN "" ELSE continuationToken
        rows == TagRowsInOrder({tt[i] : i \in {j \in 1..Len(tt) :
                                    Less(token, tt[j].repository)}})
        page == IF n < 0 THEN rows
                ELSE SubSeq(rows, 1, IF Len(rows) < n THEN Len(rows) ELSE n)
        repos == [i \in 1..Len(page) |-> page[i].repository]
    IN  IF repos = <<>> THEN [repos |-> <<>>, next |-> Nil]
        ELSE [repos |-> repos, next |-> repos[Len(repos)]]

---------------------------------------------------------------------------
(* HTTP handlers of the listings, and the catalog of several repositories *)

CatalogNames == {"lib/app", "lib/db"}

\* The (name, reference) pairs clients put and read: one repository with two
\* tags and one with a single tag
CatalogRefs == {<<"lib/app", "v1">>, <<"lib/app", "v2">>, <<"lib/db", "v1">>}

\* Page sizes a client asks for (query parameter n)
MaxPageSize == 2

\* strconv.Atoi(nStr) failed: n = 64
DefaultPageSize == 64

\* The values of n that reach ListRepositories: the page sizes, the default
\* and a negative number, which strconv.Atoi parses as well
PageSizes == 1..MaxPageSize \cup {DefaultPageSize} \cup {0 - 1}

\* db.ListRepositories fails or not
ListRepositoriesFails == {"none", "ListRepositories"}

ListTagsFails == {"none", "ListTags", "ListObjectsV2", "PutTagsBegin",
                  "PutTagsExec", "PutTagsCommit"}

\* Transactions that may be left open
MaxOpenTx == 1

\* The pages a client gets that starts from the token and follows the token
\* of the Link header until a response carries none
RECURSIVE AllPages(_, _, _)
AllPages(tt, continuationToken, n) ==
    LET r == ListRepositories(tt, continuationToken, n)
    IN  IF r.next = Nil THEN <<>>
        ELSE r.repos \o AllPages(tt, r.next, n)

---------------------------------------------------------------------------
(* Blob redirects *)

\* A SHA-512 digest, and digests that digest.Parse rejects
Hex512 == HexA \o HexA

Digest512 == "sha512:" \o Hex512

DigestShortHex == "sha256:a"

BlobDigests == {DigestA, Digest512, DigestNoColon, DigestShortHex}

Methods == {"GET", "HEAD"}

\* fmt.Sprintf("docker/registry/v2/blobs/%s/%s/%s/data", algo, hex[0:2], hex)
blobKey(algo, hex) ==
    "docker/registry/v2/blobs/" \o algo \o "/" \o SubSeq(hex, 1, 2) \o "/" \o hex
        \o "/data"

\* getBlobRedirect: the presigned request names the method and the key;
\* hex[0:2] of a hex part shorter than two bytes panics
getBlobRedirect(name, dig, method, fail) ==
    LET c == Cut(dig, ":")
    IN
    IF ~c.found
    THEN [err |-> "invalid digest format", panic |-> FALSE, url |-> Nil]
    ELSE
    IF Len(c.after) < 2
    THEN [err |-> Nil, panic |-> TRUE, url |-> Nil]
    ELSE
    IF method \notin {"GET", "HEAD"}
    THEN [err |-> "Method not allowed", panic |-> FALSE, url |-> Nil]
    ELSE
    IF fail = "Presign"
    THEN [err |-> "failed to create presigned URL", panic |-> FALSE, url |-> Nil]
    ELSE [err |-> Nil, panic |-> FALSE,
          url |-> [method |-> method, key |-> blobKey(c.before, c.after)]]

GetBlobFails == {"none", "Presign"}

---------------------------------------------------------------------------
(* Requests.  net/http serves every request in a goroutine of its own and
   the Registry holds no lock.  A request is a sequence of steps, one for
   each call it makes to the bucket or to the index, and between two steps
   of one request the steps of another may run.  calls holds, for every
   request in flight, its arguments, the method it is in, the call that
   method makes next (pc) and the locals of the method; a request that has
   returned leaves its arguments and its error until the next request of the
   same caller arrives.  resp is the response written by the step just taken,
   NoResp when the step wrote none. *)

NoResp == [op |-> "none"]

\* The callers whose requests are served at the same time
Callers == {"a", "b"}

\* The caller of a serial schedule: it sends a request when its last one has
\* been answered.  For its requests the state at arrival is recorded.
Alone == "s"

\* The bucket and the index
World == [objects |-> objects, mpus |-> mpus, sessions |-> sessions, ix |-> Ix,
          openTx |-> openTx]

CommitWorld(w) ==
    /\ objects' = w.objects
    /\ mpus' = w.mpus
    /\ sessions' = w.sessions
    /\ CommitIx(w.ix)
    /\ openTx' = w.openTx

\* The request of caller c becomes the record r
With(c, r) == [d \in DOMAIN calls \cup {c} |-> IF d = c THEN r ELSE calls[d]]

\* The method goes on to the call pc with the locals l set
Goes(w, call, pc, l) ==
    [w |-> w, call |-> [pc |-> pc] @@ l @@ call, returns |-> FALSE, err |-> Nil]

\* The method returns err with the results l
Returns(w, call, err, l) ==
    [w |-> w, call |-> l @@ call, returns |-> TRUE, err |-> err]

\* Registry.startUpload, call by call
startUploadStep(w, call, f) ==
    CASE call.pc = "CreateMultipartUpload" ->
            IF f = "CreateMultipartUpload"
            THEN Returns(w, call, "failed to create multipart upload", EmptyFn)
            ELSE Goes([w EXCEPT !.mpus = CreateMultipartUpload(@, tempKey(call.ref))],
                      call, "CreateUploadSession", EmptyFn)
      [] call.pc = "CreateUploadSession" ->
            IF f = "CreateUploadSession" \/ call.ref \in DOMAIN w.sessions
            THEN Returns(w, call, "failed to create upload session", EmptyFn)
            ELSE Returns([w EXCEPT !.sessions =
                             CreateUploadSession(@, call.ref, call.name,
                                                 tempKey(call.ref))],
                         call, Nil, EmptyFn)

\* Registry.uploadChunk, call by call.  The session row is read once, at the
\* first call; the offset is compared with the uploadedSize read then.
uploadChunkStep(w, call, f) ==
    CASE call.pc = "GetUploadSession" ->
            LET sess == GetUploadSession(w.sessions, call.ref)
                l == [s3UploadID |-> sess.s3UploadID, s3Key |-> sess.s3Key,
                      uploadedSize |-> sess.uploadedSize]
            IN  IF f = "GetUploadSession" \/ sess.err # Nil
                THEN Returns(w, call, "upload session not found", EmptyFn)
                ELSE IF sess.s3UploadID = EmptyID
                THEN Goes(w, call, "CreateMultipartUpload", l)
                ELSE IF offsetMismatch(call.offset, sess.uploadedSize)
                THEN Returns(w, call, "invalid offset", l)
                ELSE Goes(w, call, "UploadPart", l)
      [] call.pc = "CreateMultipartUpload" ->
            IF f = "CreateMultipartUpload"
            THEN Returns(w, call, "failed to create multipart upload", EmptyFn)
            ELSE LET w1 == [w EXCEPT !.mpus =
                               CreateMultipartUpload(@, tempKey(call.ref))]
                     l == [s3UploadID |-> Len(w1.mpus)]
                 IN  IF offsetMismatch(call.offset, call.uploadedSize)
                     THEN Returns(w1, call, "invalid offset", l)
                     ELSE Goes(w1, call, "UploadPart", l)
      [] call.pc = "UploadPart" ->
            IF f = "ReadBody"
            THEN Returns(w, call, "failed to read request body", EmptyFn)
            ELSE IF f = "UploadPart" \/ ~UploadPartOk(w.mpus, call.s3UploadID)
            THEN Returns(w, call, "failed to upload part", EmptyFn)
            ELSE Goes([w EXCEPT !.mpus = UploadPart(@, call.s3UploadID,
                                                    partNumberOf(call.offset),
                                                    call.body)],
                      call, "UpdateUploadSession", EmptyFn)
      [] call.pc = "UpdateUploadSession" ->
            IF f = "UpdateUploadSession"
            THEN Returns(w, call, "failed to update upload session", EmptyFn)
            ELSE Returns([w EXCEPT !.sessions =
                             UpdateUploadSession(@, call.ref, call.s3UploadID,
                                                 call.uploadedSize + ByteLen(call.body))],
                         call, Nil, [written |-> ByteLen(call.body)])

\* Variant: the error of every call of completeUpload is returned
CompleteFatal_All ==
    {"GetUploadSession", "ListParts", "CompleteMultipartUpload", "CopyObject",
     "DeleteObject", "DeleteUploadSession"}

\* The calls of completeUpload whose error is returned; the error of the
\* others is logged
CompleteFatal ==
    {"GetUploadSession", "ListParts", "CompleteMultipartUpload", "CopyObject"}

\* CompleteMultipartUpload with the parts that ListParts returned: every part
\* named must be there with the ETag listed
CompleteOk(ms, uploadId, listed) ==
    /\ UploadPartOk(ms, uploadId)
    /\ DOMAIN listed # {}
    /\ \A n \in DOMAIN listed :
          n \in DOMAIN ms[uploadId].parts /\ ms[uploadId].parts[n] = listed[n]

\* Variant: completing an upload that has no session row is no error
ErrCompleteNoSession_None == Nil

\* What completeUpload returns when GetUploadSession fails
ErrCompleteNoSession == "upload session not found"

\* Registry.completeUpload, call by call
completeUploadStep(w, call, f) ==
    CASE call.pc = "GetUploadSession" ->
            LET sess == GetUploadSession(w.sessions, call.ref)
                l == [s3UploadID |-> sess.s3UploadID, s3Key |-> sess.s3Key]
            IN  IF f = "GetUploadSession" \/ sess.err # Nil
                THEN Returns(w, call, ErrCompleteNoSession, EmptyFn)
                ELSE IF sess.s3UploadID = EmptyID
                THEN Returns(w, call, "no active multipart upload found", l)
                ELSE Goes(w, call, "ListParts", l)
      [] call.pc = "ListParts" ->
            IF f = "ListParts" \/ ~UploadPartOk(w.mpus, call.s3UploadID)
            THEN Returns(w, call, "failed to list parts", EmptyFn)
            ELSE Goes(w, call, "CompleteMultipartUpload",
                      [listed |-> w.mpus[call.s3UploadID].parts])
      [] call.pc = "CompleteMultipartUpload" ->
            IF \/ f = "CompleteMultipartUpload"
               \/ ~CompleteOk(w.mpus, call.s3UploadID, call.listed)
            THEN Returns(w, call, "failed to complete multipart upload", EmptyFn)
            ELSE LET w1 == [w EXCEPT
                               !.objects = PutObject(@, call.s3Key,
                                               Assemble(call.listed,
                                                        Ascending(DOMAIN call.listed))),
                               !.mpus[call.s3UploadID].state = "completed"]
                 IN  IF Parse(call.digest).err # Nil
                     THEN Returns(w1, call, "failed to parse digest", EmptyFn)
                     ELSE Goes(w1, call, "CopyObject", EmptyFn)
      [] call.pc = "CopyObject" ->
            IF f = "CopyObject" \/ call.s3Key \notin DOMAIN w.objects
            THEN Returns(w, call, "failed to copy blob to final location", EmptyFn)
            ELSE Goes([w EXCEPT !.objects =
                          PutObject(@, finalBlobKey(Parse(call.digest).hex),
                                    w.objects[call.s3Key])],
                      call, "DeleteObject", EmptyFn)
      [] call.pc = "DeleteObject" ->
            IF f = "DeleteObject"
            THEN IF "DeleteObject" \in CompleteFatal
                 THEN Returns(w, call, "failed to delete temporary upload file", EmptyFn)
                 ELSE Goes(w, call, "DeleteUploadSession", EmptyFn)
            ELSE Goes([w EXCEPT !.objects = DeleteObject(@, call.s3Key)],
                      call, "DeleteUploadSession", EmptyFn)
      [] call.pc = "DeleteUploadSession" ->
            IF f = "DeleteUploadSession"
            THEN IF "DeleteUploadSession" \in CompleteFatal
                 THEN Returns(w, call, "failed to delete upload session", EmptyFn)
                 ELSE Returns(w, call, Nil, EmptyFn)
            ELSE Returns([w EXCEPT !.sessions = DeleteUploadSession(@, call.ref)],
                         call, Nil, EmptyFn)

\* Registry.abortUpload, call by call; the errors of AbortMultipartUpload and
\* of DeleteUploadSession are logged
abortUploadStep(w, call, f) ==
    CASE call.pc = "GetUploadSession" ->
            LET sess == GetUploadSession(w.sessions, call.ref)
                l == [s3UploadID |-> sess.s3UploadID, s3Key |-> sess.s3Key]
            IN  IF f = "GetUploadSession" \/ sess.err # Nil
                THEN Returns(w, call, "upload session not found", EmptyFn)
                ELSE IF sess.s3UploadID # EmptyID
                THEN Goes(w, call, "AbortMultipartUpload", l)
                ELSE Goes(w, call, "DeleteUploadSession", l)
      [] call.pc = "AbortMultipartUpload" ->
            IF f = "AbortMultipartUpload" \/ ~UploadPartOk(w.mpus, call.s3UploadID)
            THEN Goes(w, call, "DeleteUploadSession", EmptyFn)
            ELSE Goes([w EXCEPT !.mpus[call.s3UploadID].state = "aborted",
                                !.mpus[call.s3UploadID].parts = <<>>],
                      call, "DeleteUploadSession", EmptyFn)
      [] call.pc = "DeleteUploadSession" ->
            IF f = "DeleteUploadSession"
            THEN Returns(w, call, Nil, EmptyFn)
            ELSE Returns([w EXCEPT !.sessions = DeleteUploadSession(@, call.ref)],
                         call, Nil, EmptyFn)

\* Handler.getUploadStatus: one call, GetUploadSession
getUploadStatusStep(w, call, f) ==
    LET sess == GetUploadSession(w.sessions, call.ref)
    IN  Returns(w, call, sess.err, [uploadedSize |-> sess.uploadedSize])

\* Variant: the tag's current/link is put before the blob
PutSteps_LinkFirst ==
    <<"PutLink", "PutBlob", "PutIndexLink", "PutRevisionsLink", "PutManifest">>

\* Variant: the index row is written before the objects of the bucket
PutSteps_IndexFirst ==
    <<"PutManifest", "PutBlob", "PutLink", "PutIndexLink", "PutRevisionsLink">>

\* The calls of putManifest to the bucket and to the index, in their order
PutSteps ==
    <<"PutBlob", "PutLink", "PutIndexLink", "PutRevisionsLink", "PutManifest">>

\* The error that putManifest returns when a PutObject fails
PutErr(step) ==
    CASE step = "PutBlob" -> "put blob"
      [] step = "PutLink" -> "put current/link"
      [] step = "PutIndexLink" -> "put index link"
      [] step = "PutRevisionsLink" -> "put revisions link"

\* The bucket and the index after one call of putManifest; a failed
\* db.PutManifest leaves the index as the call's rollback does
PutStepDone(os, ix, name, reference, manifestBytes, step, failed) ==
    LET sha == FromBytes(manifestBytes)
    IN  CASE step = "PutBlob" ->
                [os |-> PutObject(os, manifestBlobKey(Hex(sha)), manifestBytes), ix |-> ix]
          [] step = "PutLink" ->
                [os |-> PutObject(os, metaKey(name, reference), sha), ix |-> ix]
          [] step = "PutIndexLink" ->
                [os |-> PutObject(os, metaIndexKey(name, reference, Algorithm(sha),
                                                   Hex(sha)), sha),
                 ix |-> ix]
          [] step = "PutRevisionsLink" ->
                [os |-> PutObject(os, revisionsKey(name, Algorithm(sha), Hex(sha)), sha),
                 ix |-> ix]
          [] step = "PutManifest" ->
                [os |-> os,
                 ix |-> PutManifest(ix, name, reference, manifestBytes,
                                    Unmarshal(manifestBytes), failed).ix]

\* Registry.putManifest, call by call.  The bytes are unmarshalled before the
\* first call; a failed PutObject returns its error, a failed db.PutManifest
\* is logged.
putManifestStep(w, call, f) ==
    LET at == CHOOSE i \in 1..Len(PutSteps) : PutSteps[i] = call.pc
        last == at = Len(PutSteps)
        failed == f = call.pc
        d == PutStepDone(w.objects, w.ix, call.name, call.ref, call.body, call.pc,
                         failed)
        w1 == [w EXCEPT !.objects = d.os, !.ix = d.ix]
    IN  IF at = 1 /\ Unmarshal(call.body).err # Nil
        THEN Returns(w, call, "error unmarshalling manifest", EmptyFn)
        ELSE IF failed /\ call.pc # "PutManifest"
        THEN Returns(w, call, PutErr(call.pc), EmptyFn)
        ELSE IF last THEN Returns(w1, call, Nil, EmptyFn)
        ELSE Goes(w1, call, PutSteps[at + 1], EmptyFn)

\* What getManifest returns to its handler
NoManifest(err, notExist) ==
    [err |-> err, notExist |-> notExist, bytes |-> <<>>, mediaType |-> ""]

\* Registry.getManifest, call by call: the row of the index or, without one,
\* the tag's link and the blob of the bucket, which are then stored in the
\* index
getManifestStep(w, call, f) ==
    CASE call.pc = "GetManifest" ->
            LET ready == GetManifest(w.ix, call.name, call.ref)
                manifest == Unmarshal(ready.manifestJSON)
            IN  IF f # "GetManifest" /\ ready.err = Nil
                THEN IF manifest.err # Nil
                     THEN Returns(w, call, "unmarshal", NoManifest("unmarshal", FALSE))
                     ELSE Returns(w, call, Nil,
                                  [notExist |-> FALSE, bytes |-> ready.manifestJSON,
                                   mediaType |-> manifest.mediaType])
                ELSE Goes(w, call, "GetObjectLink", EmptyFn)
      [] call.pc = "GetObjectLink" ->
            LET sha == getManifestSHA(w.objects, call.name, call.ref, f)
            IN  IF sha.err # Nil
                THEN Returns(w, call, sha.err, NoManifest(sha.err, TRUE))
                ELSE Goes(w, call, "GetObjectBlob", [sha |-> sha.sha])
      [] call.pc = "GetObjectBlob" ->
            LET key == manifestBlobKey(Hex(call.sha))
            IN  IF f = "GetObjectBlob" \/ key \notin DOMAIN w.objects
                THEN Returns(w, call, "get object", NoManifest("get object", FALSE))
                ELSE IF Unmarshal(w.objects[key]).err # Nil
                THEN Returns(w, call, "unmarshal", NoManifest("unmarshal", FALSE))
                ELSE Goes(w, call, "PutManifest", [blobData |-> w.objects[key]])
      [] call.pc = "PutManifest" ->
            LET manifest == Unmarshal(call.blobData)
            IN  Returns([w EXCEPT !.ix = PutManifest(@, call.name, call.ref,
                                                     call.blobData, manifest,
                                                     f = "PutManifest").ix],
                        call, Nil,
                        [notExist |-> FALSE, bytes |-> call.blobData,
                         mediaType |-> manifest.mediaType])

\* The tags that the current/link keys of a listing name
repoTagsOf(keys, prefix) ==
    LET links == SelectSeq(keys, LAMBDA k : HasSuffix(k, "current/link"))
    IN  [i \in 1..Len(links) |->
            TrimSuffix(TrimPrefix(links[i], prefix), "/current/link")]

\* Registry.listTags, call by call: the tags of the index or, when it has
\* none, the tags of the bucket (the keys of a repository fill less than a
\* page of ListObjectsV2), which are then stored in the index
listTagsStep(w, call, f) ==
    CASE call.pc = "ListTags" ->
            LET readyTags == ListTags(w.ix.tags, call.name)
            IN  IF f # "ListTags" /\ Len(readyTags) > 0
                THEN Returns(w, call, Nil, [tags |-> readyTags])
                ELSE Goes(w, call, "ListObjectsV2", EmptyFn)
      [] call.pc = "ListObjectsV2" ->
            LET prefix == "docker/registry/v2/repositories/" \o call.name
                              \o "/_manifests/tags/"
            IN  IF f = "ListObjectsV2"
                THEN Returns(w, call, "list objects", [tags |-> <<>>])
                ELSE Goes(w, call, "PutTags",
                          [repoTags |-> repoTagsOf(ListObjectsV2(w.objects, prefix),
                                                   prefix)])
      [] call.pc = "PutTags" ->
            LET put == PutTagsCall(w.ix.tags, call.name, call.repoTags, f)
            IN  Returns([w EXCEPT !.ix.tags = put.tt,
                                  !.openTx = IF put.open THEN @ + 1 ELSE @],
                        call, Nil, [tags |-> call.repoTags])

\* Registry.listRepositories: one call, db.ListRepositories, whose error
\* (of the query, of a row's Scan, of rows.Err) it returns
listRepositoriesStep(w, call, f) ==
    LET continuationToken == IF call.token # "" THEN call.token ELSE Nil
        r == ListRepositories(w.ix.tags, continuationToken, call.n)
    IN  IF f = "ListRepositories"
        THEN Returns(w, call, "failed to list repositories", [repositories |-> <<>>, next |-> Nil])
        ELSE Returns(w, call, Nil, [repositories |-> r.repos, next |-> r.next])

\* Handler.getBlob: getBlobRedirect presigns the request
getBlobStep(w, call, f) ==
    LET r == getBlobRedirect(call.name, call.digest, call.httpMethod, f)
    IN  Returns(w, call, r.err, [url |-> r.url, panic |-> r.panic])

\* The failures of the call that a request makes next
FailsAt(call) ==
    CASE call.pc = "UploadPart" -> {"ReadBody", "UploadPart"}
      [] call.pc = "PutTags" -> {"PutTagsBegin", "PutTagsExec", "PutTagsCommit"}
      [] OTHER -> {call.pc}


---------------------------------------------------------------------------
(* HTTP handlers.  A handler action is the arrival of a request: the handler
   reads the request and enters its first method.  The steps of the method
   follow, and the step at which the last method returns writes the
   response. *)

\* The arguments of a request, which stay when it has returned
RequestFields ==
    {"op", "name", "ref", "body", "crange", "offset", "digest", "token", "n",
     "httpMethod"}

\* The responses that are recorded with the request that follows them: a
\* cancel or a chunk before a chunk, a manifest put before a manifest put
Precedes(prev, op) ==
    \/ op = "uploadChunk" /\ prev.op \in {"cancelUpload", "uploadChunk"}
    \/ op = "putManifest" /\ prev.op = "putManifest"

\* A request arrives at the handler of caller c
Arrive(c, req) ==
    /\ IF c \in DOMAIN calls THEN calls[c].done ELSE TRUE
    /\ calls' = With(c, req @@ [done |-> FALSE, fail |-> "none",
                                pre |-> IF c = Alone THEN World ELSE <<>>,
                                after |-> IF c = Alone /\ Precedes(resp, req.op)
                                          THEN resp ELSE NoResp])
    /\ resp' = NoResp
    /\ UNCHANGED <<objects, mpus, sessions, indexVars, openTx, accepted, lastPut, boot>>

\* The upload id is new: no upload and no request in flight has it
Fresh(uploadId) ==
    /\ uploadId \notin DOMAIN accepted
    /\ \A d \in DOMAIN calls :
          (~calls[d].done /\ calls[d].method = "startUpload") => calls[d].ref # uploadId

\* POST /v2/{name}/blobs/uploads/
HandlerStartUpload(c, name, uploadId) ==
    /\ Fresh(uploadId)                          \* uuid.New()
    /\ Len(mpus) < MaxMpus
    /\ Arrive(c, [op |-> "startUpload", method |-> "startUpload",
                  pc |-> "CreateMultipartUpload", name |-> name, ref |-> uploadId])

\* POST /v2/{name}/blobs/uploads/?digest=: the upload is started and, when
\* the request has a body, the body is uploaded as the chunk at offset 0 and
\* the upload is completed
HandlerStartUploadWithDigest(c, name, uploadId, digest, body) ==
    /\ Fresh(uploadId)                          \* uuid.New()
    /\ Len(mpus) + (IF body = <<>> THEN 1 ELSE 2) <= MaxMpus
    /\ Arrive(c, [op |-> "startUploadWithDigest", method |-> "startUpload",
                  pc |-> "CreateMultipartUpload", name |-> name, ref |-> uploadId,
                  digest |-> digest, body |-> body, offset |-> 0])

\* PATCH, PUT /v2/{name}/blobs/uploads/{reference}
HandlerUploadChunk(c, name, reference, fRange, body) ==
    /\ (reference \in DOMAIN sessions /\ sessions[reference].s3_upload_id = EmptyID)
          => Len(mpus) < MaxMpus
    /\ reference \in DOMAIN accepted => Len(accepted[reference]) < MaxChunks
    /\ Arrive(c, [op |-> "uploadChunk", method |-> "uploadChunk",
                  pc |-> "GetUploadSession", name |-> name, ref |-> reference,
                  crange |-> fRange, offset |-> parseContentRange(fRange).start,
                  body |-> body])

\* PUT, PATCH /v2/{name}/blobs/uploads/{reference}?digest=
HandlerCompleteUpload(c, name, reference, digest) ==
    /\ Arrive(c, [op |-> "completeUpload", method |-> "completeUpload",
                  pc |-> "GetUploadSession", name |-> name, ref |-> reference,
                  digest |-> digest])

\* DELETE /v2/{name}/blobs/uploads/{reference}
HandlerCancelUpload(c, reference) ==
    /\ Arrive(c, [op |-> "cancelUpload", method |-> "abortUpload",
                  pc |-> "GetUploadSession", ref |-> reference])

\* GET /v2/{name}/blobs/uploads/{reference}
HandlerGetUploadStatus(c, name, reference) ==
    /\ Arrive(c, [op |-> "getUploadStatus", method |-> "getUploadSession",
                  pc |-> "GetUploadSession", name |-> name, ref |-> reference])

\* PUT /v2/{name}/manifests/{reference}
HandlerPutManifest(c, name, reference, manifestBytes) ==
    /\ Arrive(c, [op |-> "putManifest", method |-> "putManifest",
                  pc |-> PutSteps[1], name |-> name, ref |-> reference,
                  body |-> manifestBytes])

\* GET, HEAD /v2/{name}/manifests/{reference}
HandlerGetManifest(c, name, reference) ==
    /\ Arrive(c, [op |-> "getManifest", method |-> "getManifest",
                  pc |-> "GetManifest", name |-> name, ref |-> reference])

\* GET /v2/{name}/tags/list
HandlerListTags(c, name) ==
    /\ Arrive(c, [op |-> "listTags", method |-> "listTags", pc |-> "ListTags",
                  name |-> name])

\* GET /v2/repositories?continuationToken=&n=
HandlerListRepositories(c, token, n) ==
    /\ Arrive(c, [op |-> "listRepositories", method |-> "listRepositories",
                  pc |-> "ListRepositories", token |-> token, n |-> n])

\* GET, HEAD /v2/{name}/blobs/{digest}
HandlerGetBlob(c, name, dig, method) ==
    /\ Arrive(c, [op |-> "getBlob", method |-> "getBlobRedirect", pc |-> "Presign",
                  name |-> name, digest |-> dig, httpMethod |-> method])

\* The put of a tag's manifest is recorded when it returns success and
\* forgotten when it returns an error
PutRecorded(name, reference, manifestBytes, err) ==
    IF err = Nil
    THEN [k \in DOMAIN lastPut \cup {<<name, reference>>} |->
             IF k = <<name, reference>> THEN manifestBytes ELSE lastPut[k]]
    ELSE [k \in DOMAIN lastPut \ {<<name, reference>>} |-> lastPut[k]]

\* The upload id that a start request minted is recorded when startUpload
\* returns
Minted(uploadId) ==
    [u \in DOMAIN accepted \cup {uploadId} |->
        IF u = uploadId THEN <<>> ELSE accepted[u]]

\* The chunk of an upload is recorded when it is accepted
ChunkRecorded(reference, body, err) ==
    IF err = Nil /\ reference \in DOMAIN accepted
    THEN [accepted EXCEPT ![reference] = Append(@, body)]
    ELSE accepted

\* The method of a request returned r.err: the handler writes the response
\* or, in startUploadWithDigest, enters the next method
Answer(c, r) ==
    LET call == r.call
        err == r.err
        gone == [done |-> TRUE, err |-> err, fail |-> call.fail]
                    @@ [k \in DOMAIN call \cap RequestFields |-> call[k]]
        head == [call |-> c, op |-> call.op, err |-> err, fail |-> call.fail]
        same == [accepted |-> accepted, lastPut |-> lastPut]
    IN
    CASE call.op = "startUpload" ->
            [call |-> gone,
             resp |-> [ref |-> call.ref,
                       status |-> IF err # Nil THEN 500 ELSE 202] @@ head,
             accepted |-> Minted(call.ref), lastPut |-> lastPut]
      [] call.op = "uploadChunk" ->
            LET n == IF err = Nil THEN call.written ELSE 0
            IN  [call |-> [written |-> n] @@ gone,
                 resp |-> [ref |-> call.ref, body |-> call.body,
                           crange |-> call.crange, offset |-> call.offset, n |-> n,
                           status |-> uploadChunkStatus(err),
                           range |-> IF err # Nil THEN NoRange
                                     ELSE RangeHeader(call.offset,
                                                      call.offset + n - 1)] @@ head,
                 accepted |-> ChunkRecorded(call.ref, call.body, err),
                 lastPut |-> lastPut]
      [] call.op = "completeUpload" ->
            [call |-> gone,
             resp |-> [ref |-> call.ref, digest |-> call.digest,
                       status |-> IF err # Nil THEN 500 ELSE 201] @@ head] @@ same
      [] call.op = "cancelUpload" ->
            [call |-> gone,
             resp |-> [ref |-> call.ref,
                       status |-> cancelUploadStatus(err)] @@ head] @@ same
      [] call.op = "getUploadStatus" ->
            [call |-> gone,
             resp |-> [ref |-> call.ref,
                       status |-> IF err # Nil THEN 404 ELSE 204,
                       range |-> IF err = Nil /\ call.uploadedSize > 0
                                 THEN RangeHeader(0, call.uploadedSize - 1)
                                 ELSE NoRange] @@ head] @@ same
      [] call.op = "startUploadWithDigest" ->
            IF err # Nil
            THEN [call |-> gone,
                  resp |-> [ref |-> call.ref, digest |-> call.digest,
                            body |-> call.body, at |-> call.method,
                            status |-> 500] @@ head,
                  accepted |-> IF call.method = "startUpload"
                               THEN Minted(call.ref) ELSE accepted,
                  lastPut |-> lastPut]
            ELSE IF call.method = "startUpload" /\ call.body # <<>>
            THEN [call |-> [method |-> "uploadChunk", pc |-> "GetUploadSession"]
                               @@ call,
                  resp |-> NoResp, accepted |-> Minted(call.ref),
                  lastPut |-> lastPut]
            ELSE IF call.method = "uploadChunk"
            THEN [call |-> [method |-> "completeUpload", pc |-> "GetUploadSession"]
                               @@ call,
                  resp |-> NoResp,
                  accepted |-> ChunkRecorded(call.ref, call.body, err),
                  lastPut |-> lastPut]
            ELSE [call |-> gone,
                  resp |-> [ref |-> call.ref, digest |-> call.digest,
                            body |-> call.body, at |-> call.method,
                            status |-> IF call.method = "completeUpload"
                                       THEN 201 ELSE 202] @@ head,
                  accepted |-> IF call.method = "startUpload"
                               THEN Minted(call.ref) ELSE accepted,
                  lastPut |-> lastPut]
      [] call.op = "putManifest" ->
            LET \* the request before this one was the same request
                again == /\ call.after.op = "putManifest"
                         /\ call.after.name = call.name
                         /\ call.after.ref = call.ref
                         /\ call.after.body = call.body
            IN  [call |-> gone,
                 resp |-> [name |-> call.name, ref |-> call.ref, body |-> call.body,
                           status |-> IF err # Nil THEN 500 ELSE 201,
                           again |-> again,
                           prevErr |-> IF again THEN call.after.err ELSE Nil,
                           prevFail |-> IF again THEN call.after.fail ELSE "none",
                           \* the request left the index other than it found it
                           ixChanged |-> c = Alone /\ r.w.ix # call.pre.ix]
                              @@ head,
                 accepted |-> accepted,
                 lastPut |-> PutRecorded(call.name, call.ref, call.body, err)]
      [] call.op = "getManifest" ->
            [call |-> gone,
             resp |-> [name |-> call.name, ref |-> call.ref,
                       status |-> IF err = Nil THEN 200
                                  ELSE IF call.notExist THEN 404 ELSE 500,
                       contentType |-> call.mediaType,
                       body |-> call.bytes] @@ head] @@ same
      [] call.op = "listTags" ->
            [call |-> gone,
             resp |-> [name |-> call.name,
                       status |-> IF err # Nil THEN 500 ELSE 200,
                       tags |-> call.tags] @@ head] @@ same
      [] call.op = "listRepositories" ->
            [call |-> gone,
             resp |-> [status |-> IF err # Nil THEN 500 ELSE 200, n |-> call.n,
                       repositories |-> call.repositories,
                       next |-> call.next] @@ head] @@ same
      [] call.op = "getBlob" ->
            \* status 0 is a request whose handler panicked: the server closes
            \* the connection without a response
            [call |-> gone,
             resp |-> [digest |-> call.digest, method |-> call.httpMethod,
                       url |-> call.url,
                       status |-> IF call.panic THEN 0
                                  ELSE IF err # Nil THEN 500 ELSE 302] @@ head] @@ same

\* The record of the request of caller c whose next call fails as f names
Failing(c, f) == IF f = "none" THEN calls[c] ELSE [fail |-> f] @@ calls[c]

\* The call made is r: the request goes on, or its handler answers
Answered(c, r) ==
    IF r.returns THEN Answer(c, r)
    ELSE [call |-> r.call, resp |-> NoResp, accepted |-> accepted,
          lastPut |-> lastPut]

\* The bucket, the index and the request after the call r, answered as a
Took(c, r, a) ==
    /\ Len(r.w.mpus) <= MaxMpus
    /\ r.w.openTx <= MaxOpenTx
    /\ CommitWorld(r.w)
    /\ calls' = With(c, a.call)
    /\ resp' = a.resp
    /\ accepted' = a.accepted
    /\ lastPut' = a.lastPut
    /\ UNCHANGED boot

\* The request of caller c makes its next call, r, which fails when f names
\* it; at most one call of a request fails
Step(c, f, r) ==
    /\ f = "none" \/ (calls[c].fail = "none" /\ f \in FailsAt(calls[c]))
    /\ Took(c, r, Answered(c, r))

\* The request of caller c is in flight in method m
InMethod(c, m) == c \in DOMAIN calls /\ ~calls[c].done /\ calls[c].method = m

StartUploadStep(c, f) ==
    /\ InMethod(c, "startUpload")
    /\ Step(c, f, startUploadStep(World, Failing(c, f), f))

UploadChunkStep(c, f) ==
    /\ InMethod(c, "uploadChunk")
    /\ Step(c, f, uploadChunkStep(World, Failing(c, f), f))

CompleteUploadStep(c, f) ==
    /\ InMethod(c, "completeUpload")
    /\ Step(c, f, completeUploadStep(World, Failing(c, f), f))

AbortUploadStep(c, f) ==
    /\ InMethod(c, "abortUpload")
    /\ Step(c, f, abortUploadStep(World, Failing(c, f), f))

GetUploadStatusStep(c) ==
    /\ InMethod(c, "getUploadSession")
    /\ Step(c, "none", getUploadStatusStep(World, calls[c], "none"))

PutManifestStep(c, f) ==
    /\ InMethod(c, "putManifest")
    /\ Step(c, f, putManifestStep(World, Failing(c, f), f))

GetManifestStep(c, f) ==
    /\ InMethod(c, "getManifest")
    /\ Step(c, f, getManifestStep(World, Failing(c, f), f))

ListTagsStep(c, f) ==
    /\ InMethod(c, "listTags")
    /\ Step(c, f, listTagsStep(World, Failing(c, f), f))

ListRepositoriesStep(c, f) ==
    /\ InMethod(c, "listRepositories")
    /\ Step(c, f, listRepositoriesStep(World, Failing(c, f), f))

GetBlobStep(c, f) ==
    /\ InMethod(c, "getBlobRedirect")
    /\ Step(c, f, getBlobStep(World, Failing(c, f), f))

Init ==
    /\ objects = EmptyFn
    /\ mpus = <<>>
    /\ sessions = EmptyFn
    /\ tags = <<>>
    /\ manifests = EmptyFn
    /\ manifest_layers = {}
    /\ layers = EmptyFn
    /\ accepted = EmptyFn
    /\ lastPut = EmptyFn
    /\ boot = BootIdle
    /\ calls = EmptyFn
    /\ openTx = 0
    /\ resp = NoResp

---------------------------------------------------------------------------
(* Specifications of serial schedules: one caller, whose requests run call
   by call and do not overlap *)

RangeHeaders(body) ==
    {RangeHeader(o, o + ByteLen(body) - 1) : o \in Offsets} \cup {NoRange}

\* Bodies of start requests with a digest: none (no Content-Length) and one
DigestBodies == {<<>>, <<"s">>}

\* The requests of the upload endpoints
UploadArrives(c) ==
    \/ \E name \in Names, u \in UploadIds : HandlerStartUpload(c, name, u)
    \/ \E name \in Names, u \in References, b \in Bodies :
          \E h \in RangeHeaders(b) : HandlerUploadChunk(c, name, u, h, b)
    \/ \E name \in Names, u \in References, d \in Digests :
          HandlerCompleteUpload(c, name, u, d)
    \/ \E u \in References : HandlerCancelUpload(c, u)
    \/ \E name \in Names, u \in References : HandlerGetUploadStatus(c, name, u)
    \/ \E name \in Names, u \in UploadIds, d \in Digests, b \in DigestBodies :
          HandlerStartUploadWithDigest(c, name, u, d, b)

Next ==
    \/ UploadArrives(Alone)
    \/ \E f \in StartFails : StartUploadStep(Alone, f)
    \/ \E f \in ChunkFails : UploadChunkStep(Alone, f)
    \/ \E f \in CompleteFails : CompleteUploadStep(Alone, f)
    \/ \E f \in AbortFails : AbortUploadStep(Alone, f)
    \/ GetUploadStatusStep(Alone)

\* The upload endpoints when every call to the bucket and the index succeeds
NextClean ==
    \/ UploadArrives(Alone)
    \/ StartUploadStep(Alone, "none")
    \/ UploadChunkStep(Alone, "none")
    \/ CompleteUploadStep(Alone, "none")
    \/ AbortUploadStep(Alone, "none")
    \/ GetUploadStatusStep(Alone)

Spec == Init /\ [][Next]_vars

SpecClean == Init /\ [][NextClean]_vars

NextManifest ==
    \/ \E name \in Names, t \in Tags, b \in ManifestBodies :
          HandlerPutManifest(Alone, name, t, b)
    \/ \E name \in Names, t \in Tags : HandlerGetManifest(Alone, name, t)
    \/ \E f \in PutManifestFails : PutManifestStep(Alone, f)
    \/ \E f \in GetManifestFails : GetManifestStep(Alone, f)

SpecManifest == Init /\ [][NextManifest]_vars

\* Puts whose object-store writes succeed, reads, and the listings
NextCatalog ==
    \/ \E ref \in CatalogRefs : HandlerPutManifest(Alone, ref[1], ref[2], ManifestM1)
    \/ \E ref \in CatalogRefs : HandlerGetManifest(Alone, ref[1], ref[2])
    \/ \E name \in CatalogNames : HandlerListTags(Alone, name)
    \/ \E token \in CatalogNames \cup {""}, n \in PageSizes :
          HandlerListRepositories(Alone, token, n)
    \/ \E f \in {"none", "PutManifest"} : PutManifestStep(Alone, f)
    \/ GetManifestStep(Alone, "none")
    \/ \E f \in ListTagsFails : ListTagsStep(Alone, f)
    \/ \E f \in ListRepositoriesFails : ListRepositoriesStep(Alone, f)

SpecCatalog == Init /\ [][NextCatalog]_vars

\* Uploads without failures, completed under the digests of BlobDigests, and
\* blob requests
NextBlob ==
    \/ \E name \in Names, u \in UploadIds : HandlerStartUpload(Alone, name, u)
    \/ \E name \in Names, u \in References, b \in Bodies :
          \E h \in RangeHeaders(b) : HandlerUploadChunk(Alone, name, u, h, b)
    \/ \E name \in Names, u \in References, d \in BlobDigests :
          HandlerCompleteUpload(Alone, name, u, d)
    \/ \E name \in Names, d \in BlobDigests, m \in Methods :
          HandlerGetBlob(Alone, name, d, m)
    \/ StartUploadStep(Alone, "none")
    \/ UploadChunkStep(Alone, "none")
    \/ CompleteUploadStep(Alone, "none")
    \/ \E f \in GetBlobFails : GetBlobStep(Alone, f)

SpecBlob == Init /\ [][NextBlob]_vars

\* A Content-Range that Sscanf("bytes=%d-%d") rejects
BadRange == <<"bytes ", 0, "-", 99>>

\* Bytes a client may announce in Content-Range while sending a longer body
ShortRangeLen == ByteLen(<<"s">>) \div 2

\* Content-Range headers of chunk requests: ranges as long as the body,
\* ranges shorter than the body, no header and a header that does not parse.
ChunkRanges(body) ==
    RangeHeaders(body)
    \cup {RangeHeader(o, o + ShortRangeLen - 1) : o \in Offsets}
    \cup {BadRange}

\* The chunk endpoint under every Content-Range, no call failing
NextRange ==
    \/ \E name \in Names, u \in UploadIds : HandlerStartUpload(Alone, name, u)
    \/ \E name \in Names, u \in References, b \in Bodies :
          \E h \in ChunkRanges(b) : HandlerUploadChunk(Alone, name, u, h, b)
    \/ \E name \in Names, u \in References : HandlerGetUploadStatus(Alone, name, u)
    \/ StartUploadStep(Alone, "none")
    \/ UploadChunkStep(Alone, "none")
    \/ GetUploadStatusStep(Alone)

SpecRange == Init /\ [][NextRange]_vars

---------------------------------------------------------------------------
(* Bootstrap: the crawl of a bucket that is there when the registry starts *)

\* runtime.NumCPU()
NumCPU == 1

\* group.SetLimit(runtime.NumCPU() * 4)
Limit == NumCPU * 4

\* Keys in one page of ListObjectsV2
MaxKeys == 4

\* Runs of the registry with the bootstrap flag
MaxRuns == 2

\* Tags of the bucket that the index holds when the registry first starts
MaxPreIndexed == 1

\* The tags of the bucket, in the order they were put
BootRefs == <<<<"lib/app", "v1">>, <<"lib/app", "v2">>, <<"lib/app", "v3">>,
              <<"lib/app", "v4">>, <<"lib/app", "v5">>>>

EmptyIx == [tags |-> <<>>, manifests |-> EmptyFn, manifest_layers |-> {},
            layers |-> EmptyFn]

\* The bucket and the index after putManifest for each of refs, where the
\* index write succeeded for the first k of them
RECURSIVE Stored(_, _)
Stored(refs, k) ==
    IF refs = <<>> THEN [os |-> EmptyFn, ix |-> EmptyIx]
    ELSE LET n == Len(refs)
             prev == Stored(SubSeq(refs, 1, n - 1), k)
             r == putManifest(prev.os, prev.ix, refs[n][1], refs[n][2], ManifestM1,
                              IF n <= k THEN "none" ELSE "PutManifest")
         IN  [os |-> r.os, ix |-> r.ix]

\* One page of ListObjectsV2; the continuation token stands for the number of
\* keys the earlier pages returned
ListPage(os, prefix, token) ==
    LET all == ListObjectsV2(os, prefix)
        to == IF token + MaxKeys < Len(all) THEN token + MaxKeys ELSE Len(all)
    IN  [contents |-> SubSeq(all, token + 1, to), truncated |-> to < Len(all),
         next |-> to]

\* The repository and the tag that a current/link key names
linkRef(key) ==
    LET noPrefix == TrimPrefix(key, "docker/registry/v2/repositories/")
        cut == Cut(noPrefix, "/_manifests/tags/")
    IN  [ok |-> cut.found, repo |-> cut.before,
         tag |-> TrimSuffix(cut.after, "/current/link")]

\* group.Go blocks while the group runs Limit functions
GoBlocked_Never(running) == FALSE

GoBlocked(running) == Cardinality(DOMAIN running) >= Limit

\* The position of the scanner after the key at pos of the page
AfterKey(b) ==
    IF b.pos < Len(b.page) THEN [b EXCEPT !.pos = @ + 1]
    ELSE [b EXCEPT !.pos = @ + 1, !.pc = IF b.truncated THEN "list" ELSE "wait"]

BootFetchFails == {"none", "GetObjectBlob", "PutManifest"}

\* Bootstrap at its entry, in the run after the runs of b
Entered(b) ==
    [pc |-> "list", run |-> b.run + 1, token |-> 0, page |-> <<>>,
     pos |-> 0, truncated |-> FALSE,
     found |-> 0, skipped |-> 0, processed |-> 0, running |-> EmptyFn,
     go |-> <<>>,
     err |-> Nil, clean |-> TRUE,
     prevNil |-> b.run > 0 /\ b.err = Nil,
     prevClean |-> b.run > 0 /\ b.clean /\ b.err = Nil,
     indexed0 |-> {<<tags[i].repository, tags[i].name>> : i \in 1..Len(tags)}]

\* The registry is started with the bootstrap flag: registry.Bootstrap(ctx)
\* is called
BootStart ==
    /\ boot.pc = "idle"
    /\ boot' = Entered(boot)
    /\ UNCHANGED <<objects, mpus, sessions, indexVars, accepted, lastPut, openTx, resp, calls>>

\* The registry is started with the bootstrap flag once more, over the
\* bucket and the index that the run before left
BootAgain ==
    /\ boot.pc = "returned" /\ boot.running = EmptyFn
    /\ boot.run < MaxRuns
    /\ boot' = Entered(boot)
    /\ UNCHANGED <<objects, mpus, sessions, indexVars, accepted, lastPut, openTx, resp, calls>>

\* The scanner lists the next page; a failed listing returns its error
BootListPage(failed) ==
    /\ boot.pc = "list"
    /\ IF failed
       THEN boot' = [boot EXCEPT !.pc = "returned", !.err = "list objects"]
       ELSE LET req == ListPage(objects, "docker/registry/v2/repositories/", boot.token)
            IN  boot' = [boot EXCEPT !.page = req.contents, !.pos = 1,
                                     !.truncated = req.truncated, !.token = req.next,
                                     !.pc = IF req.contents # <<>> THEN "scan"
                                            ELSE IF req.truncated THEN "list"
                                            ELSE "wait"]
    /\ UNCHANGED <<objects, mpus, sessions, indexVars, accepted, lastPut, openTx, resp, calls>>

\* The scanner handles the next key of the page: it counts a current/link
\* key, skips a tag that db.Exists finds and enters group.Go for any other,
\* also for a tag of the index when the query of db.Exists failed
BootScanKey(failed) ==
    /\ boot.pc = "scan"
    /\ LET key == boot.page[boot.pos]
           ref == linkRef(key)
       IN  IF ~HasSuffix(key, "current/link")
           THEN boot' = AfterKey(boot)
           ELSE IF ~ref.ok
           THEN boot' = AfterKey([boot EXCEPT !.found = @ + 1])
           ELSE IF Exists(tags, ref.repo, ref.tag, failed)
           THEN boot' = AfterKey([boot EXCEPT !.found = @ + 1, !.skipped = @ + 1])
           ELSE boot' = [boot EXCEPT !.found = @ + 1, !.pc = "go",
                                     !.go = <<ref.repo, ref.tag>>]
    /\ UNCHANGED <<objects, mpus, sessions, indexVars, accepted, lastPut, openTx, resp, calls>>

\* The function that group.Go starts for a tag, at its first call:
\* r.getManifest(ctx, repo, tag)
BootFunction(ref) ==
    [method |-> "getManifest", pc |-> "GetManifest", name |-> ref[1], ref |-> ref[2]]

\* group.Go returns: the group runs fewer than Limit functions, the function
\* of the tag is started and the scanner goes on to the next key
BootGo ==
    /\ boot.pc = "go"
    /\ ~GoBlocked(boot.running)
    /\ boot' = AfterKey([boot EXCEPT !.pc = "scan", !.go = <<>>,
                                     !.running = [w \in DOMAIN @ \cup {boot.go} |->
                                                     IF w = boot.go
                                                     THEN BootFunction(boot.go)
                                                     ELSE @[w]]])
    /\ UNCHANGED <<objects, mpus, sessions, indexVars, accepted, lastPut, openTx, resp, calls>>

\* The function of tag w made the call r of getManifest, which failed when f
\* names it: the function goes on or, when getManifest returned, counts
\* processed and returns nil
Fetched(w, f, r) ==
    /\ CommitIx(r.w.ix)
    /\ boot' = IF r.returns
               THEN [boot EXCEPT !.running = [v \in DOMAIN @ \ {w} |-> @[v]],
                                 !.processed = @ + 1,
                                 !.clean = @ /\ r.err = Nil /\ f = "none"]
               ELSE [boot EXCEPT !.running[w] = r.call]
    /\ UNCHANGED <<objects, mpus, sessions, accepted, lastPut, openTx, resp, calls>>

\* A function of the group makes its next call: db.GetManifest, the GetObject
\* of the tag's link, the GetObject of the blob, db.PutManifest
BootWorker(w, f) ==
    /\ boot.pc # "idle"
    /\ w \in DOMAIN boot.running
    /\ f = "none" \/ f \in FailsAt(boot.running[w])
    /\ Fetched(w, f, getManifestStep(World, boot.running[w], f))

\* return group.Wait()
BootWait ==
    /\ boot.pc = "wait"
    /\ boot.running = EmptyFn
    /\ boot' = [boot EXCEPT !.pc = "returned"]
    /\ UNCHANGED <<objects, mpus, sessions, indexVars, accepted, lastPut, openTx, resp, calls>>

\* runServe returns after a failed Bootstrap: the process and its workers end
BootExit ==
    /\ boot.pc = "returned"
    /\ boot.running # EmptyFn
    /\ boot' = [boot EXCEPT !.running = EmptyFn]
    /\ UNCHANGED <<objects, mpus, sessions, indexVars, accepted, lastPut, openTx, resp, calls>>

\* The registry starts over a bucket that holds the tags of BootRefs and an
\* index that holds the first of them
InitBootstrap ==
    /\ \E k \in 0..MaxPreIndexed :
          LET st == Stored(BootRefs, k)
          IN  /\ objects = st.os
              /\ tags = st.ix.tags
              /\ manifests = st.ix.manifests
              /\ manifest_layers = st.ix.manifest_layers
              /\ layers = st.ix.layers
    /\ mpus = <<>>
    /\ sessions = EmptyFn
    /\ accepted = EmptyFn
    /\ lastPut = EmptyFn
    /\ boot = BootIdle
    /\ calls = EmptyFn
    /\ openTx = 0
    /\ resp = NoResp

NextBootstrap ==
    \/ BootStart
    \/ \E failed \in BOOLEAN : BootListPage(failed)
    \/ \E failed \in BOOLEAN : BootScanKey(failed)
    \/ BootGo
    \/ \E w \in DOMAIN boot.running, f \in BootFetchFails : BootWorker(w, f)
    \/ BootWait
    \/ BootExit

SpecBootstrap == InitBootstrap /\ [][NextBootstrap]_vars

\* The tags a bucket held before the registry was started, and the tags
\* clients read and put afterwards
OldRefs == <<<<"lib/app", "v1">>, <<"lib/app", "v2">>>>

BackfillTags == {"v1", "v2", "v3"}

\* The tags that two callers read and put at the same time
RaceTags == {"v1", "v2"}

\* The registry starts with an empty index over a bucket that holds OldRefs
InitBackfill ==
    /\ objects = Stored(OldRefs, 0).os
    /\ tags = <<>>
    /\ manifests = EmptyFn
    /\ manifest_layers = {}
    /\ layers = EmptyFn
    /\ mpus = <<>>
    /\ sessions = EmptyFn
    /\ accepted = EmptyFn
    /\ lastPut = EmptyFn
    /\ boot = BootIdle
    /\ calls = EmptyFn
    /\ openTx = 0
    /\ resp = NoResp

\* Manifest reads, manifest puts and tag listings, no call failing
NextBackfill ==
    \/ \E name \in Names, t \in BackfillTags : HandlerGetManifest(Alone, name, t)
    \/ \E name \in Names, t \in BackfillTags, b \in {ManifestM1, ManifestM2} :
          HandlerPutManifest(Alone, name, t, b)
    \/ \E name \in Names : HandlerListTags(Alone, name)
    \/ GetManifestStep(Alone, "none")
    \/ PutManifestStep(Alone, "none")
    \/ ListTagsStep(Alone, "none")

SpecBackfill == InitBackfill /\ [][NextBackfill]_vars

\* A tag listing served by an earlier run of the registry, whose index file
\* the run that bootstraps opens (runServe calls Bootstrap before it serves)
EarlierListTags ==
    /\ boot.pc = "idle"
    /\ \/ \E name \in Names : HandlerListTags(Alone, name)
       \/ ListTagsStep(Alone, "none")

\* The earlier run has answered its requests
EarlierRunOver == \A c \in DOMAIN calls : calls[c].done

\* Bootstrap over a bucket that was there and an index that tag listings of
\* an earlier run may have filled
NextBootListed ==
    \/ EarlierListTags
    \/ EarlierRunOver /\ NextBootstrap

SpecBootListed == InitBackfill /\ [][NextBootListed]_vars

\* Runs of Bootstrap, one after the other, over a bucket that was there and
\* an index that starts empty
NextBootTwice ==
    \/ NextBootstrap
    \/ BootAgain

SpecBootTwice == InitBackfill /\ [][NextBootTwice]_vars

---------------------------------------------------------------------------
(* Specifications of requests served at the same time: two callers, the
   steps of whose requests interleave *)

\* Manifest puts of two callers for one tag, any call failing
NextPutRace ==
    \/ \E c \in Callers, name \in Names, t \in Tags, b \in {ManifestM1, ManifestM2} :
          HandlerPutManifest(c, name, t, b)
    \/ \E c \in Callers, f \in PutManifestFails : PutManifestStep(c, f)

SpecPutRace == Init /\ [][NextPutRace]_vars

\* The upload endpoints of two callers, no call failing
NextUploadRace ==
    \/ \E c \in Callers, name \in Names, u \in UploadIds : HandlerStartUpload(c, name, u)
    \/ \E c \in Callers, name \in Names, u \in UploadIds, b \in Bodies :
          \E h \in RangeHeaders(b) : HandlerUploadChunk(c, name, u, h, b)
    \/ \E c \in Callers, name \in Names, u \in UploadIds :
          HandlerCompleteUpload(c, name, u, DigestA)
    \/ \E c \in Callers, u \in UploadIds : HandlerCancelUpload(c, u)
    \/ \E c \in Callers : StartUploadStep(c, "none")
    \/ \E c \in Callers : UploadChunkStep(c, "none")
    \/ \E c \in Callers : CompleteUploadStep(c, "none")
    \/ \E c \in Callers : AbortUploadStep(c, "none")

SpecUploadRace == Init /\ [][NextUploadRace]_vars

\* Manifest puts, manifest reads and tag listings of two callers over a
\* bucket that was there, no call failing
NextIndexRace ==
    \/ \E c \in Callers, name \in Names, t \in RaceTags, b \in {ManifestM1, ManifestM2} :
          HandlerPutManifest(c, name, t, b)
    \/ \E c \in Callers, name \in Names, t \in RaceTags : HandlerGetManifest(c, name, t)
    \/ \E c \in Callers, name \in Names : HandlerListTags(c, name)
    \/ \E c \in Callers : PutManifestStep(c, "none")
    \/ \E c \in Callers : GetManifestStep(c, "none")
    \/ \E c \in Callers : ListTagsStep(c, "none")

\* The bucket holds the manifest of one tag and the index is empty
InitIndexRace ==
    /\ objects = Stored(SubSeq(OldRefs, 1, 1), 0).os
    /\ tags = <<>>
    /\ manifests = EmptyFn
    /\ manifest_layers = {}
    /\ layers = EmptyFn
    /\ mpus = <<>>
    /\ sessions = EmptyFn
    /\ accepted = EmptyFn
    /\ lastPut = EmptyFn
    /\ boot = BootIdle
    /\ calls = EmptyFn
    /\ openTx = 0
    /\ resp = NoResp

SpecIndexRace == InitIndexRace /\ [][NextIndexRace]_vars

---------------------------------------------------------------------------
(* Properties of the upload state machine *)

Last(seq) == seq[Len(seq)]

RECURSIVE Concat(_)
Concat(bodies) ==
    IF bodies = <<>> THEN <<>> ELSE Head(bodies) \o Concat(Tail(bodies))

\* The multipart uploads begun under the temporary key of an upload id
MpusOf(reference) == {i \in 1..Len(mpus) : mpus[i].key = tempKey(reference)}

\* The state in which the request that this step answers arrived, and the
\* response that preceded the request
Pre == calls[resp'.call].pre

Before == calls[resp'.call].after

\* The request that this step answers left the bucket, the sessions and the
\* index as it found them
Untouched ==
    /\ objects' = Pre.objects
    /\ mpus' = Pre.mpus
    /\ sessions' = Pre.sessions
    /\ Ix' = Pre.ix

\* The request uploaded no part: the uploads that were there keep their parts
\* and an upload that it began has none.
NoPartUploaded ==
    /\ Len(mpus') >= Len(Pre.mpus)
    /\ \A i \in 1..Len(mpus') :
          mpus'[i].parts = IF i <= Len(Pre.mpus) THEN Pre.mpus[i].parts ELSE <<>>

\* C2: a chunk request succeeds only if its offset equalled the session's
\* uploaded_size before the call; after it uploaded_size is offset + len(body)
\* and the count returned is len(body).
C2_ChunkContract ==
    [][(resp'.op = "uploadChunk" /\ resp'.err = Nil) =>
          LET u == resp'.ref
              body == Last(accepted'[u])
          IN  /\ u \in DOMAIN Pre.sessions
              /\ resp'.offset = Pre.sessions[u].uploaded_size
              /\ u \in DOMAIN sessions'
              /\ sessions'[u].uploaded_size = resp'.offset + ByteLen(body)
              /\ resp'.n = ByteLen(body)]_vars

\* C2 witness: a second chunk was accepted at a non-zero offset.
C2_Witness ==
    /\ resp.op = "uploadChunk"
    /\ resp.err = Nil
    /\ resp.offset > 0
    /\ Len(accepted[resp.ref]) = 2

\* C3: uploaded_size of a session equals the number of bytes held in the
\* parts of its backing multipart upload (stated here for the states right
\* after an accepted chunk).
C3_SizeEqualsPartBytes ==
    (resp.op = "uploadChunk" /\ resp.err = Nil) =>
        LET row == sessions[resp.ref]
            parts == mpus[row.s3_upload_id].parts
        IN  row.uploaded_size = PartBytes(parts, DOMAIN parts)

\* C3 divergence: two chunks of 100 bytes were accepted, uploaded_size is 200
\* and the parts of the multipart upload hold 100 bytes.
C3_Diverges ==
    /\ resp.op = "uploadChunk"
    /\ resp.err = Nil
    /\ accepted[resp.ref] = <<<<"s">>, <<"s">>>>
    /\ sessions[resp.ref].uploaded_size = 200
    /\ LET parts == mpus[sessions[resp.ref].s3_upload_id].parts
       IN  PartBytes(parts, DOMAIN parts) = 100

\* C4: after a successful completeUpload(U, D) the object under the blob key
\* of D is the concatenation, in offset order, of the accepted chunk bodies.
C4_BlobIsConcatenation ==
    (resp.op = "completeUpload" /\ resp.err = Nil) =>
        LET key == finalBlobKey(Parse(resp.digest).hex)
        IN  /\ key \in DOMAIN objects
            /\ objects[key] = Concat(accepted[resp.ref])

\* C4 divergence: the upload of two accepted chunks of 100 bytes completed and
\* the blob holds the second chunk alone.
C4_Diverges ==
    /\ resp.op = "completeUpload"
    /\ resp.err = Nil
    /\ accepted[resp.ref] = <<<<"s">>, <<"s">>>>
    /\ objects[finalBlobKey(Parse(resp.digest).hex)] = <<"s">>

\* C5: after a successful startUpload(U) the session row holds the identifier
\* of the multipart upload that start began, and at most one multipart upload
\* is ever begun per upload session.
C5_OneMultipartPerSession ==
    /\ (resp.op = "startUpload" /\ resp.err = Nil) =>
          sessions[resp.ref].s3_upload_id \in MpusOf(resp.ref)
    /\ \A u \in DOMAIN accepted : Cardinality(MpusOf(u)) <= 1

\* C5 divergence: the first chunk of a started upload was accepted and two
\* multipart uploads have been begun under the upload's key.
C5_Diverges ==
    /\ resp.op = "uploadChunk"
    /\ resp.err = Nil
    /\ Len(accepted[resp.ref]) = 1
    /\ Cardinality(MpusOf(resp.ref)) = 2

\* C6: after abortUpload(U) whose object-store abort call did not fail, no
\* multipart upload begun for U is left open.
C6_AbortLeavesNoneOpen ==
    (resp.op = "cancelUpload" /\ resp.err = Nil /\ resp.fail # "AbortMultipartUpload") =>
        \A i \in MpusOf(resp.ref) : mpus[i].state # "open"

\* C6 divergence: the abort of a started upload succeeded, the upload's session
\* row is gone and a multipart upload begun for it is open.
C6_Diverges ==
    /\ resp.op = "cancelUpload"
    /\ resp.err = Nil
    /\ resp.fail = "none"
    /\ resp.ref \notin DOMAIN sessions
    /\ \E i \in MpusOf(resp.ref) : mpus[i].state = "open"

\* C7: a chunk request whose offset differs from the session's uploaded_size
\* is rejected, leaves the session row unchanged and uploads no part.
C7_OutOfOrderRejected ==
    [][(/\ resp'.op = "uploadChunk"
        /\ resp'.ref \in DOMAIN Pre.sessions
        /\ resp'.offset # Pre.sessions[resp'.ref].uploaded_size) =>
          /\ resp'.err # Nil
          /\ sessions' = Pre.sessions
          /\ accepted' = accepted
          /\ objects' = Pre.objects
          /\ NoPartUploaded]_vars

\* C7 witness: after a first chunk of 100 bytes, a chunk at offset 50 was
\* rejected and uploaded_size is still 100.
C7_Witness ==
    /\ resp.op = "uploadChunk"
    /\ resp.err = "invalid offset"
    /\ resp.offset = 50
    /\ resp.ref \in DOMAIN sessions
    /\ sessions[resp.ref].uploaded_size = 100

\* C8: a chunk request rejected for its offset is answered with status 400.
C8_OutOfOrderIs400 ==
    (resp.op = "uploadChunk" /\ resp.err = "invalid offset") => resp.status = 400

\* C8 divergence: after a first chunk of 100 bytes, a chunk at offset 50 was
\* answered with status 500.
C8_Diverges ==
    /\ resp.op = "uploadChunk"
    /\ resp.err = "invalid offset"
    /\ resp.offset = 50
    /\ resp.ref \in DOMAIN sessions
    /\ sessions[resp.ref].uploaded_size = 100
    /\ resp.status = 500

\* C9: abortUpload on an upload id without a session row returns success and
\* changes nothing.
C9_AbortMissingSucceeds ==
    [][(resp'.op = "cancelUpload" /\ resp'.ref \notin DOMAIN Pre.sessions) =>
          /\ resp'.err = Nil
          /\ resp'.status = 204
          /\ Untouched]_vars

\* C9 divergence: the cancel of an upload that had been started and whose
\* session row is gone was answered with an error.
C9_Diverges ==
    /\ resp.op = "cancelUpload"
    /\ resp.ref \in DOMAIN accepted
    /\ resp.ref \notin DOMAIN sessions
    /\ resp.err = "upload session not found"
    /\ resp.status = 500

\* C10: completeUpload on an upload id without a session row returns an error
\* and changes neither the object store nor the index.
C10_CompleteMissingFails ==
    [][(resp'.op = "completeUpload" /\ resp'.ref \notin DOMAIN Pre.sessions) =>
          /\ resp'.err # Nil
          /\ resp'.status = 500
          /\ Untouched]_vars

\* C10 witness: completeUpload failed on an upload that had been started and
\* is gone, with uploads and objects present in the bucket.
C10_Witness ==
    /\ resp.op = "completeUpload"
    /\ resp.err = "upload session not found"
    /\ resp.ref \in DOMAIN accepted
    /\ resp.ref \notin DOMAIN sessions
    /\ DOMAIN objects # {}

\* C11: after an upload was cancelled (204), a chunk request on it ingests
\* nothing and is answered with status 404.
C11_ChunkAfterCancelIs404 ==
    [][(/\ resp'.op = "uploadChunk"
        /\ Before.op = "cancelUpload"
        /\ Before.status = 204
        /\ resp'.ref = Before.ref) =>
          /\ resp'.status = 404
          /\ Untouched
          /\ UNCHANGED accepted]_vars

\* C11 divergence: a chunk request on a started upload that was cancelled (its
\* row is gone and none of its multipart uploads was completed) was answered
\* with status 500.
C11_Diverges ==
    /\ resp.op = "uploadChunk"
    /\ resp.ref \in DOMAIN accepted
    /\ resp.ref \notin DOMAIN sessions
    /\ \A i \in MpusOf(resp.ref) : mpus[i].state # "completed"
    /\ resp.err = "upload session not found"
    /\ resp.status = 500

\* C12 as stated: after completeUpload(U, D) returned success the session
\* row of U no longer exists.
C12_CompletedRowGone ==
    (resp.op = "completeUpload" /\ resp.err = Nil) => resp.ref \notin DOMAIN sessions

\* C12 divergence: completeUpload returned success though its delete of the
\* session row failed; the row is still there, and the status query that
\* followed on the completed upload (its parts assembled, its temporary
\* object deleted) was answered 204 instead of session missing.
C12_Diverges ==
    /\ resp.op = "getUploadStatus"
    /\ resp.err = Nil
    /\ resp.status = 204
    /\ resp.ref \in DOMAIN sessions
    /\ \E i \in MpusOf(resp.ref) : mpus[i].state = "completed"
    /\ tempKey(resp.ref) \notin DOMAIN objects
    /\ finalBlobKey(HexA) \in DOMAIN objects

---------------------------------------------------------------------------
(* Properties of the manifest paths *)

\* C1: after a successful putManifest(name, reference, B), the next
\* getManifest(name, reference) returns exactly B, whether or not the index
\* write inside putManifest succeeded.
C1_GetReturnsLastPut ==
    (/\ resp.op = "getManifest"
     /\ resp.err = Nil
     /\ <<resp.name, resp.ref>> \in DOMAIN lastPut) =>
        resp.body = lastPut[<<resp.name, resp.ref>>]

\* C1 divergence: the last successful put of the tag stored the second
\* manifest and the read returns the first.
C1_Diverges ==
    /\ resp.op = "getManifest"
    /\ resp.err = Nil
    /\ <<resp.name, resp.ref>> \in DOMAIN lastPut
    /\ lastPut[<<resp.name, resp.ref>>] = ManifestM2
    /\ resp.body = ManifestM1

\* C13: after a successful putManifest(name, reference, B) the bucket holds B
\* under the blob key of sha256(B) and the textual digest of B under the tag's
\* current link, the tag's index link and the repository's revisions link.
C13_PutWritesBlobAndLinks ==
    (resp.op = "putManifest" /\ resp.err = Nil) =>
        LET B == lastPut[<<resp.name, resp.ref>>]
            hex == Sha256Hex(B)
            repo == "docker/registry/v2/repositories/" \o resp.name
            tag == repo \o "/_manifests/tags/" \o resp.ref
            blob == "docker/registry/v2/blobs/sha256/" \o SubSeq(hex, 1, 2)
                        \o "/" \o hex \o "/data"
            links == {tag \o "/current/link",
                      tag \o "/index/sha256/" \o hex \o "/link",
                      repo \o "/_manifests/revisions/sha256/" \o hex \o "/link"}
        IN  /\ blob \in DOMAIN objects
            /\ objects[blob] = B
            /\ Cardinality(links) = 3
            /\ \A k \in links : k \in DOMAIN objects /\ objects[k] = "sha256:" \o hex

\* C13 witness: the second manifest was put under a tag that held the first.
C13_Witness ==
    /\ resp.op = "putManifest"
    /\ resp.err = Nil
    /\ lastPut[<<resp.name, resp.ref>>] = ManifestM2
    /\ manifestBlobKey(Sha256Hex(ManifestM1)) \in DOMAIN objects
    /\ objects[metaKey(resp.name, resp.ref)] = FromBytes(ManifestM2)

\* C20: getManifest is answered with 404 exactly when the index has no
\* manifest for the tag and the tag's current link is absent from the bucket;
\* every other failure is answered with 500.
C20_NotFoundOnlyWhenAbsent ==
    [][resp'.op = "getManifest" =>
          /\ (resp'.status = 404) <=>
                 (/\ GetManifest(Pre.ix, resp'.name, resp'.ref).err # Nil
                  /\ metaKey(resp'.name, resp'.ref) \notin DOMAIN Pre.objects)
          /\ (resp'.err # Nil /\ resp'.status # 404) => resp'.status = 500]_vars

\* C20 divergence: a read of a tag whose current link is in the bucket and
\* holds the digest of a stored manifest was answered with 404.
C20_Diverges ==
    /\ resp.op = "getManifest"
    /\ resp.status = 404
    /\ metaKey(resp.name, resp.ref) \in DOMAIN objects
    /\ objects[metaKey(resp.name, resp.ref)] = FromBytes(ManifestM1)
    /\ objects[manifestBlobKey(Sha256Hex(ManifestM1))] = ManifestM1
    /\ GetManifest(Ix, resp.name, resp.ref).err # Nil

---------------------------------------------------------------------------
(* Properties of the listings *)

\* The tags of a repository for which putManifest has returned success
PutTagsOf(name) == {k[2] : k \in {x \in DOMAIN lastPut : x[1] = name}}

\* C14: once putManifest has returned success for k distinct tags of a
\* repository, listTags(name) returns exactly k distinct tag names.
C14_ListTagsReturnsAllPut ==
    (resp.op = "listTags" /\ resp.err = Nil) =>
        /\ Len(resp.tags) = Cardinality(PutTagsOf(resp.name))
        /\ {resp.tags[i] : i \in 1..Len(resp.tags)} = PutTagsOf(resp.name)

\* C14 divergence: two tags of a repository were put with success and the tag
\* list names one of them.
C14_Diverges ==
    /\ resp.op = "listTags"
    /\ resp.err = Nil
    /\ resp.name = "lib/app"
    /\ PutTagsOf("lib/app") = {"v1", "v2"}
    /\ resp.tags = <<"v1">>

\* C15: following the tokens from the empty token, with any page size n >= 1,
\* returns every repository of the index exactly once over all pages.
C15_EveryRepositoryOnce ==
    \A n \in 1..MaxPageSize :
        LET all == AllPages(tags, Nil, n)
        IN  /\ {all[i] : i \in 1..Len(all)} = {tags[i].repository : i \in 1..Len(tags)}
            /\ \A i, j \in 1..Len(all) : all[i] = all[j] => i = j

\* C15 divergence: a page of size 2 names the same repository twice.
C15_Diverges ==
    /\ resp.op = "listRepositories"
    /\ resp.n = 2
    /\ resp.repositories = <<"lib/app", "lib/app">>
    /\ resp.next = "lib/app"

---------------------------------------------------------------------------
(* Properties of Bootstrap *)

\* The scanner stands in group.Go with a tag to fetch
AtNewTag == boot.pc = "go"

\* C18: at every moment of a Bootstrap run at most 4 times the CPU count
\* manifest fetches are in flight, whatever the number of current/link keys.
C18_InFlightAtMostCap == Cardinality(DOMAIN boot.running) <= 4 * NumCPU

\* The cap is reached while the scanner stands at a further tag to fetch
C18_Witness == AtNewTag /\ Cardinality(DOMAIN boot.running) = 4 * NumCPU

\* C19: once Bootstrap has returned, on success or on a failed page listing,
\* no manifest fetch that it started is still running.
C19_ReturnsAfterWorkers == boot.pc = "returned" => boot.running = EmptyFn

\* Bootstrap returned the error of a page listing while fetches are in flight
C19_Diverges == boot.pc = "returned" /\ boot.err # Nil /\ boot.running # EmptyFn

\* T: the tags that the current/link keys of the bucket name
BucketTags ==
    {<<linkRef(k).repo, linkRef(k).tag>> :
        k \in {k \in DOMAIN objects :
                  /\ HasPrefix(k, "docker/registry/v2/repositories/")
                  /\ HasSuffix(k, "current/link")
                  /\ linkRef(k).ok}}

\* The tags of the index
IndexedTags == {<<tags[i].repository, tags[i].name>> : i \in 1..Len(tags)}

\* C17 (as stated): when Bootstrap has returned, skipped is the number of
\* tags of T that the index had, processed is the number of the others, and
\* the index has an entry for every tag of T.
C17_CountsAndIndexOnReturn ==
    boot.pc = "returned" =>
        /\ boot.skipped = Cardinality(BucketTags \cap boot.indexed0)
        /\ boot.processed = Cardinality(BucketTags \ boot.indexed0)
        /\ BucketTags \subseteq IndexedTags

\* C17 divergence: Bootstrap returned nil and every function of the group has
\* returned; a fetch failed and was counted as processed, and the index has
\* no entry for its tag.
C17_Diverges ==
    /\ boot.pc = "returned" /\ boot.err = Nil /\ boot.running = EmptyFn
    /\ ~boot.clean
    /\ boot.skipped = Cardinality(BucketTags \cap boot.indexed0)
    /\ boot.processed = Cardinality(BucketTags \ boot.indexed0)
    /\ ~(BucketTags \subseteq IndexedTags)

\* C16 (as stated): a second run of Bootstrap over the unchanged bucket
\* dispatches no manifest fetch and leaves every index table unchanged.
C16_SecondRunDoesNothing ==
    [][boot.run >= 2 /\ boot'.run = boot.run =>
          /\ DOMAIN boot'.running \subseteq DOMAIN boot.running
          /\ UNCHANGED indexVars]_vars

\* C16 divergence: the first run returned nil although a fetch of it had
\* failed; the second run over the same bucket dispatched a fetch and
\* returned with an index that it changed.
C16_Diverges ==
    /\ boot.run = 2 /\ boot.prevNil /\ ~boot.prevClean
    /\ boot.pc = "returned" /\ boot.err = Nil /\ boot.running = EmptyFn
    /\ boot.processed >= 1
    /\ IndexedTags # boot.indexed0

---------------------------------------------------------------------------
(* Properties of the chunk response and of the blob redirect *)

\* C22: after every accepted chunk the Range header of the chunk response is
\* bytes=0-{uploaded_size-1}, the Range that a status query right after it
\* reports, for the first chunk and for every later one.
C22_ChunkRangeFromZero ==
    (resp.op = "uploadChunk" /\ resp.err = Nil) =>
        resp.range = RangeHeader(0, SizeOf(sessions, resp.ref) - 1)

\* C22 divergence: a second chunk was accepted at offset 100 and its response
\* carries a Range that starts at 100 while uploaded_size is 200.
C22_Diverges ==
    /\ resp.op = "uploadChunk" /\ resp.err = Nil
    /\ resp.offset = 100
    /\ SizeOf(sessions, resp.ref) = 200
    /\ resp.range = RangeHeader(100, 199)

\* C21: a blob GET or HEAD whose digest has no ':' fails as a bad digest, is
\* answered with status 400 and mints no presigned URL.
C21_NoColonIs400 ==
    (resp.op = "getBlob" /\ ~Cut(resp.digest, ":").found) =>
        /\ resp.err # Nil
        /\ resp.status = 400
        /\ resp.url = Nil

\* C21 divergence: a blob request whose digest has no ':' failed, minted no
\* URL and was answered with status 500.
C21_Diverges ==
    /\ resp.op = "getBlob"
    /\ resp.digest = DigestNoColon
    /\ resp.err = "invalid digest format"
    /\ resp.url = Nil
    /\ resp.status = 500

\* C29: after a successful completeUpload(U, D) the blob is stored under the
\* key that getBlobRedirect presigns for D, the blob key of D with the
\* algorithm of D, for every well-formed digest D.
C29_CompleteKeyIsRedirectKey ==
    (resp.op = "completeUpload" /\ resp.err = Nil) =>
        LET sha == Parse(resp.digest)
            get == getBlobRedirect("lib/app", resp.digest, "GET", "none")
        IN  /\ get.err = Nil /\ ~get.panic
            /\ get.url.key = blobKey(sha.algo, sha.hex)
            /\ finalBlobKey(sha.hex) = get.url.key
            /\ get.url.key \in DOMAIN objects

\* C29 divergence: an upload was completed under a SHA-512 digest; the blob is
\* under the sha256 key of its hex part and no object is under the key that
\* the redirect of the digest names.
C29_Diverges ==
    /\ resp.op = "completeUpload" /\ resp.err = Nil
    /\ resp.digest = Digest512
    /\ finalBlobKey(Hex512) \in DOMAIN objects
    /\ blobKey("sha512", Hex512) \notin DOMAIN objects
    /\ getBlobRedirect("lib/app", Digest512, "GET", "none").url.key
           = blobKey("sha512", Hex512)

---------------------------------------------------------------------------
(* Properties of the writes of putManifest and of the index *)

\* The object-store writes of a put of body b, in the order blob, current
\* link, index link, revisions link
PutWrites(name, reference, b) ==
    LET sha == FromBytes(b)
    IN  <<<<manifestBlobKey(Hex(sha)), b>>,
          <<metaKey(name, reference), sha>>,
          <<metaIndexKey(name, reference, Algorithm(sha), Hex(sha)), sha>>,
          <<revisionsKey(name, Algorithm(sha), Hex(sha)), sha>>>>

RECURSIVE ApplyWrites(_, _)
ApplyWrites(os, ws) ==
    IF ws = <<>> THEN os
    ELSE LET w == ws[Len(ws)]
         IN  PutObject(ApplyWrites(os, SubSeq(ws, 1, Len(ws) - 1)), w[1], w[2])

\* The writes of the bucket that a putManifest in flight has made
WritesMade(call) ==
    LET at == CHOOSE i \in 1..Len(PutSteps) : PutSteps[i] = call.pc
    IN  SubSeq(PutWrites(call.name, call.ref, call.body), 1, at - 1)

\* C23: a putManifest request performs a prefix of the writes blob, current
\* link, index link, revisions link, index row: a put that fails leaves the
\* writes before the failing one in place and the index as it was, and a put
\* that writes the index row has written the blob and the three links; no
\* step removes a key of the bucket, so in every reachable state the blob and
\* links of a row that putManifest wrote exist.
C23_PutWritesInOrder ==
    [][/\ DOMAIN objects \subseteq DOMAIN objects'
       /\ \A c \in DOMAIN calls :
             (~calls[c].done /\ calls[c].op = "putManifest") =>
                 /\ calls[c].pc \in {"PutBlob", "PutLink", "PutIndexLink",
                                     "PutRevisionsLink", "PutManifest"}
                 /\ (Ix' # Ix /\ resp'.op = "putManifest") =>
                        calls[c].pc = "PutManifest"
                 /\ objects = ApplyWrites(calls[c].pre.objects, WritesMade(calls[c]))
                 /\ Ix = calls[c].pre.ix
       /\ resp'.op = "putManifest" =>
             \E b \in ManifestBodies, k \in 0..4 :
                LET ws == PutWrites(resp'.name, resp'.ref, b)
                IN  /\ objects' = ApplyWrites(Pre.objects, SubSeq(ws, 1, k))
                    /\ resp'.err = Nil <=> (k = 4 /\ Unmarshal(b).err = Nil)
                    /\ k < 4 => Ix' = Pre.ix
                    /\ Ix' # Pre.ix =>
                          /\ GetManifest(Ix', resp'.name, resp'.ref).manifestJSON = b
                          /\ \A i \in 1..4 :
                                /\ ws[i][1] \in DOMAIN objects'
                                /\ objects'[ws[i][1]] = ws[i][2]]_vars

\* C23 witness: the put of the second manifest failed at the index link: its
\* blob and the tag's current link are written, its index link is not, and
\* the index still holds the row of the first manifest.
C23_Witness ==
    /\ resp.op = "putManifest"
    /\ resp.err = "put index link"
    /\ LET ws == PutWrites(resp.name, resp.ref, ManifestM2)
       IN  /\ ws[1][1] \in DOMAIN objects
           /\ ws[2][1] \in DOMAIN objects
           /\ objects[ws[2][1]] = FromBytes(ManifestM2)
           /\ ws[3][1] \notin DOMAIN objects
    /\ GetManifest(Ix, resp.name, resp.ref).manifestJSON = ManifestM1

\* C24: when the four object-store writes of putManifest succeed and the
\* index write fails, putManifest returns success and the index is left as it
\* was, an older manifest row of the tag included.
C24_IndexFailureIsSuccess ==
    [][(/\ resp'.op = "putManifest"
        /\ resp'.fail = "PutManifest"
        /\ Unmarshal(resp'.body).err = Nil) =>
          /\ resp'.err = Nil
          /\ resp'.status = 201
          /\ Ix' = Pre.ix
          /\ objects' = ApplyWrites(Pre.objects,
                                    PutWrites(resp'.name, resp'.ref, resp'.body))]_vars

\* C24 witness: the put of the second manifest succeeded with a failed index
\* write; the tag's current link names the second manifest and the index
\* holds the row of the first.
C24_Witness ==
    /\ resp.op = "putManifest"
    /\ resp.fail = "PutManifest"
    /\ resp.body = ManifestM2
    /\ resp.err = Nil
    /\ objects[metaKey(resp.name, resp.ref)] = FromBytes(ManifestM2)
    /\ GetManifest(Ix, resp.name, resp.ref).manifestJSON = ManifestM1

\* C25: every multi-statement index write is all or nothing: after a request
\* the index holds either what it held or the whole effect of the request's
\* PutManifest or PutTags, and no transaction is left open.
C25_AllOrNothing ==
    [][/\ resp'.op = "listTags" =>
             \/ tags' = Pre.ix.tags
             \/ tags' = PutTags(Pre.ix.tags, resp'.name, resp'.tags)
       /\ resp'.op \in {"putManifest", "getManifest"} =>
             \/ Ix' = Pre.ix
             \/ \E b \in ManifestBodies :
                   Ix' = PutManifestTx(Pre.ix, resp'.name, resp'.ref, b, Unmarshal(b))
       /\ openTx' = 0]_vars

\* C25 divergence: listTags found the tags of a repository in the bucket, the
\* insert of a tag failed inside PutTags, the tags are not in the index and
\* the transaction is left open.
C25_Diverges ==
    /\ resp.op = "listTags"
    /\ resp.err = Nil
    /\ resp.tags # <<>>
    /\ ListTags(tags, resp.name) = <<>>
    /\ openTx = 1

\* The manifest_layers rows that a manifest row of the given bytes has
LayerRows(rowid, bytes) ==
    LET ls == Unmarshal(bytes).layers
    IN  {[manifest_rowid |-> rowid, layer_digest |-> ls[i].digest,
          layer_index |-> i - 1] : i \in 1..Len(ls)}

\* C26: every tag has one row and at most one manifest row, and the
\* manifest_layers rows of a manifest row are the layers of its manifest with
\* the indices 0..len-1 in their order; no row is left from a replaced
\* manifest.
C26_LayerRowsMatchManifest ==
    /\ \A i, j \in 1..Len(tags) : tags[i] = tags[j] => i = j
    /\ DOMAIN manifests \subseteq 1..Len(tags)
    /\ \A r \in DOMAIN manifests :
          {x \in manifest_layers : x.manifest_rowid = r} = LayerRows(r, manifests[r])
    /\ \A x \in manifest_layers : x.manifest_rowid \in DOMAIN manifests

\* C26 witness: the tag's manifest of two layers was replaced by the manifest
\* of one layer, and one manifest_layers row is there.
C26_Witness ==
    /\ LayerB.digest \in DOMAIN layers
    /\ \E r \in DOMAIN manifests : manifests[r] = ManifestM1
    /\ Cardinality(manifest_layers) = 1

---------------------------------------------------------------------------
(* Properties of chunks that fail and are sent again *)

\* C27: when uploadChunk finds a session without a multipart identifier, the
\* identifier of the multipart upload it begins is in the session row after
\* the call, whether the call then failed or not, so that the next chunk
\* begins no further multipart upload.
C27_BegunUploadIsPersisted ==
    [][(/\ resp'.op = "uploadChunk"
        /\ resp'.ref \in DOMAIN Pre.sessions
        /\ Pre.sessions[resp'.ref].s3_upload_id = EmptyID
        /\ Len(mpus') > Len(Pre.mpus)) =>
          /\ resp'.ref \in DOMAIN sessions'
          /\ sessions'[resp'.ref].s3_upload_id = Len(mpus')]_vars

\* C27 divergence: after a chunk that was rejected for its offset, the next
\* chunk was accepted as the first of the upload and three multipart uploads
\* have been begun under the upload's key: by start and by each of the chunks.
C27_Diverges ==
    /\ resp.op = "uploadChunk"
    /\ resp.err = Nil
    /\ Len(accepted[resp.ref]) = 1
    /\ Cardinality(MpusOf(resp.ref)) = 3
    /\ sessions[resp.ref].s3_upload_id = 3
    /\ \A i \in MpusOf(resp.ref) : mpus[i].state = "open"

\* C28: when a chunk failed at the update of the session row, after its part
\* reached the object store, the same chunk sent again at the same offset is
\* accepted and leaves the multipart uploads as they were (the same part of
\* the same upload is written again) and uploaded_size as after one
\* acceptance.
C28_ResendIsIdempotent ==
    [][(/\ resp'.op = "uploadChunk"
        /\ Before.op = "uploadChunk"
        /\ Before.err = "failed to update upload session"
        /\ resp'.ref = Before.ref
        /\ resp'.offset = Before.offset
        /\ resp'.body = Before.body
        /\ resp'.fail = "none") =>
          /\ resp'.err = Nil
          /\ mpus' = Pre.mpus
          /\ sessions'[resp'.ref].uploaded_size
                 = Before.offset + ByteLen(Before.body)]_vars

\* C28 divergence: the first chunk was sent again after a failed update of
\* the session row and accepted; the part of the failed call is in a
\* multipart upload that the session is not bound to, and the part of the
\* resend is in a further one.
C28_Diverges ==
    /\ resp.op = "uploadChunk"
    /\ resp.err = Nil
    /\ resp.offset = 0
    /\ Len(accepted[resp.ref]) = 1
    /\ \E i, j \in MpusOf(resp.ref) :
          /\ i # j
          /\ sessions[resp.ref].s3_upload_id = j
          /\ DOMAIN mpus[i].parts = {1} /\ mpus[i].parts[1] = resp.body
          /\ DOMAIN mpus[j].parts = {1} /\ mpus[j].parts[1] = resp.body

\* C30: completeUpload on a session that exists and is bound to a multipart
\* upload returns success exactly when the listing of the parts, the
\* completion of the multipart upload, the parsing of the digest and the copy
\* to the final key succeed; a failed delete of the temporary object or of the
\* session row does not make it fail.
C30_CompleteSucceedsIffFatalStepsDo ==
    [][(/\ resp'.op = "completeUpload"
        /\ resp'.fail # "GetUploadSession"
        /\ resp'.ref \in DOMAIN Pre.sessions
        /\ Pre.sessions[resp'.ref].s3_upload_id # EmptyID) =>
          LET id == Pre.sessions[resp'.ref].s3_upload_id
              listed == resp'.fail # "ListParts" /\ UploadPartOk(Pre.mpus, id)
              completed == /\ resp'.fail # "CompleteMultipartUpload"
                           /\ DOMAIN Pre.mpus[id].parts # {}
              parsed == Parse(resp'.digest).err = Nil
              copied == resp'.fail # "CopyObject"
          IN  /\ resp'.err = Nil <=> (listed /\ completed /\ parsed /\ copied)
              /\ resp'.status = IF resp'.err = Nil THEN 201 ELSE 500]_vars

\* C30 witness: a completion whose delete of the temporary object failed
\* returned success: the blob is under its final key and the temporary object
\* is still there.
C30_Witness ==
    /\ resp.op = "completeUpload"
    /\ resp.fail = "DeleteObject"
    /\ resp.err = Nil
    /\ tempKey(resp.ref) \in DOMAIN objects
    /\ finalBlobKey(HexA) \in DOMAIN objects
    /\ resp.ref \notin DOMAIN sessions

---------------------------------------------------------------------------
(* Properties of requests with malformed digests *)

\* C38: a completeUpload that fails because its digest cannot be parsed leaves
\* the object store and the session as they were, so that the session can be
\* completed later with a valid digest.
C38_BadDigestChangesNothing ==
    [][(resp'.op = "completeUpload" /\ resp'.err = "failed to parse digest") =>
          /\ objects' = Pre.objects
          /\ mpus' = Pre.mpus
          /\ sessions' = Pre.sessions]_vars

\* C38 divergence: after a completion with a malformed digest, the completion
\* of the same session with a valid digest failed at the listing of the
\* parts: the multipart upload is completed, its object is under the
\* temporary key and the session row is there.
C38_Diverges ==
    /\ resp.op = "completeUpload"
    /\ resp.digest = DigestA
    /\ resp.err = "failed to list parts"
    /\ resp.ref \in DOMAIN sessions
    /\ sessions[resp.ref].s3_upload_id # EmptyID
    /\ mpus[sessions[resp.ref].s3_upload_id].state = "completed"
    /\ tempKey(resp.ref) \in DOMAIN objects
    /\ finalBlobKey(HexA) \notin DOMAIN objects

\* C39: a blob request is answered with a redirect to a presigned URL or with
\* an error for every digest text, a digest with fewer than two characters
\* after ':' included; its handler does not end in a runtime fault, and it
\* changes neither the index nor the object store.
C39_RedirectOrError ==
    [][resp'.op = "getBlob" =>
          /\ resp'.status \in {302, 500}
          /\ Untouched
          /\ openTx' = Pre.openTx]_vars

\* C39 divergence: the request for a digest with one character after ':' got
\* no response: the handler panicked at hex[0:2].
C39_Diverges ==
    /\ resp.op = "getBlob"
    /\ resp.digest = DigestShortHex
    /\ resp.err = Nil
    /\ resp.status = 0

---------------------------------------------------------------------------
(* Properties of the Content-Range of a chunk *)

\* bytes=s-e was sent and parsed
Ranged(h) == Len(h) = 4 /\ h[1] = "bytes=" /\ h[3] = "-"

\* C31: a chunk sent with Content-Range bytes=s-e is ingested at offset s and
\* at most e-s+1 of its bytes are accepted; a chunk whose Content-Range is
\* missing or does not parse is ingested whole at offset 0.
C31_RangeBoundsIngestion ==
    [][(resp'.op = "uploadChunk" /\ resp'.err = Nil) =>
          LET h == resp'.crange
              ref == resp'.ref
              grown == sessions'[ref].uploaded_size - Pre.sessions[ref].uploaded_size
          IN  IF Ranged(h)
              THEN /\ resp'.offset = h[2]
                   /\ Pre.sessions[ref].uploaded_size = h[2]
                   /\ resp'.n <= h[4] - h[2] + 1
                   /\ grown <= h[4] - h[2] + 1
              ELSE /\ resp'.offset = 0
                   /\ Pre.sessions[ref].uploaded_size = 0
                   /\ resp'.n = ByteLen(resp'.body)
                   /\ grown = ByteLen(resp'.body)]_vars

\* C31 divergence: a chunk announced as bytes=0-49 was accepted with the 100
\* bytes of its body: the session counts 100 bytes and the response says
\* Range: bytes=0-99.
C31_Diverges ==
    /\ resp.op = "uploadChunk"
    /\ resp.err = Nil
    /\ resp.crange = RangeHeader(0, ShortRangeLen - 1)
    /\ resp.n = 100
    /\ sessions[resp.ref].uploaded_size = 100
    /\ resp.range = RangeHeader(0, 99)

\* The part of C31 that holds: start offset from the header, 0 without one,
\* and the whole body ingested in both cases.
C31_WholeBodyAtStart ==
    [][(resp'.op = "uploadChunk" /\ resp'.err = Nil) =>
          LET h == resp'.crange
              ref == resp'.ref
          IN  /\ resp'.offset = (IF Ranged(h) THEN h[2] ELSE 0)
              /\ Pre.sessions[ref].uploaded_size = resp'.offset
              /\ resp'.n = ByteLen(resp'.body)
              /\ sessions'[ref].uploaded_size = resp'.offset + resp'.n]_vars

---------------------------------------------------------------------------
(* Properties of repeated manifest puts *)

\* A put of bytes that parse as a manifest
PutOf(r) == r.op = "putManifest" /\ Unmarshal(r.body).err = Nil

\* The bucket and the index after putManifest(name, reference, b) from the
\* bucket os and the index ix, every call succeeding
Uninterrupted(os, ix, name, reference, b) ==
    LET r == putManifest(os, ix, name, reference, b, "none")
    IN  [os |-> r.os, ix |-> r.ix]

\* The step is a put that failed part-way, and putting the same manifest
\* again from the state it left gives the state of one uninterrupted put
\* from the state before the failure.
RerunCompletes ==
    (PutOf(resp') /\ resp'.err # Nil) =>
        Uninterrupted(objects', Ix', resp'.name, resp'.ref, resp'.body)
            = Uninterrupted(Pre.objects, Pre.ix, resp'.name, resp'.ref, resp'.body)

\* C33 (as stated): a putManifest that repeats the successful putManifest
\* before it, with the same name, reference and bytes, leaves the bucket and
\* the index unchanged; and re-running a putManifest that failed part-way
\* gives the bucket and the index of one uninterrupted successful call.
C33_RepeatChangesNothing ==
    [][/\ (PutOf(resp') /\ resp'.err = Nil /\ resp'.again /\ resp'.prevErr = Nil)
           => objects' = Pre.objects /\ Ix' = Pre.ix
       /\ RerunCompletes]_vars

\* C33 divergence: a put returned 201 although its index write had failed;
\* the same put was sent again, succeeded, and changed the index: the
\* manifest that the index lacked after the first call is there.
C33_Diverges ==
    /\ resp.op = "putManifest"
    /\ resp.again
    /\ resp.prevErr = Nil
    /\ resp.prevFail = "PutManifest"
    /\ resp.fail = "none"
    /\ resp.err = Nil
    /\ resp.ixChanged
    /\ GetManifest(Ix, resp.name, resp.ref).manifestJSON = resp.body

---------------------------------------------------------------------------
(* Properties of an index that is filled over a bucket that was there *)

\* C34: a tag listing that succeeds returns every tag of the repository that
\* has a current/link key in the bucket.
C34_ListTagsIsComplete ==
    (resp.op = "listTags" /\ resp.err = Nil) =>
        \A ref \in BucketTags :
            ref[1] = resp.name => \E i \in 1..Len(resp.tags) : resp.tags[i] = ref[2]

\* C34 divergence: no manifest was put since the start; a manifest read
\* back-filled v1 into the index, and the listing returned v1 alone although
\* the bucket holds the current/link of v2.
C34_Diverges ==
    /\ resp.op = "listTags"
    /\ resp.err = Nil
    /\ resp.name = "lib/app"
    /\ resp.tags = <<"v1">>
    /\ lastPut = EmptyFn
    /\ metaKey("lib/app", "v2") \in DOMAIN objects
    /\ tags = <<[repository |-> "lib/app", name |-> "v1"]>>

\* Bootstrap has returned nil, its workers are done, and no fetch failed
BootDoneClean ==
    boot.pc = "returned" /\ boot.err = Nil /\ boot.running = EmptyFn /\ boot.clean

\* C35: after Bootstrap has returned without error and with every fetch it
\* issued successful, the index holds a manifest for every (repository, tag)
\* that has a current/link key in the bucket.
C35_BootstrapIndexesEveryManifest ==
    BootDoneClean =>
        \A ref \in BucketTags : GetManifest(Ix, ref[1], ref[2]).err = Nil

\* C35 divergence: a tag listing had registered the tags of the bucket; the
\* Bootstrap that followed skipped both tags, fetched nothing and returned
\* nil, and the index holds no manifest.
C35_Diverges ==
    /\ BootDoneClean
    /\ boot.run = 1
    /\ boot.skipped = 2
    /\ boot.processed = 0
    /\ resp.op = "listTags"
    /\ metaKey("lib/app", "v1") \in DOMAIN objects
    /\ Exists(tags, "lib/app", "v1", FALSE)
    /\ manifests = EmptyFn

---------------------------------------------------------------------------
(* Properties of manifest puts that are served at the same time *)

\* C36: when the current/link of a tag holds the digest D, the blob object
\* of D is in the bucket and holds bytes whose digest is D, in every state
\* that interleaved putManifest calls reach, whichever of their calls fail.
C36_NoDanglingTagPointer ==
    \A name \in Names, t \in Tags :
        metaKey(name, t) \in DOMAIN objects =>
            LET d == objects[metaKey(name, t)]
            IN  /\ manifestBlobKey(Hex(d)) \in DOMAIN objects
                /\ FromBytes(objects[manifestBlobKey(Hex(d))]) = d

\* C36 witness: a put returned an error after it had written the tag's link,
\* while a put of other bytes for the same tag has written its blob and is
\* about to write the link; the link holds the digest of the failed put and
\* both blobs are in the bucket.
C36_Witness ==
    \E c, d \in DOMAIN calls :
        /\ calls[c].done /\ calls[c].fail = "PutIndexLink"
        /\ ~calls[d].done /\ calls[d].pc = "PutLink"
        /\ calls[c].ref = calls[d].ref
        /\ calls[c].body # calls[d].body
        /\ objects[metaKey(calls[c].name, calls[c].ref)] = FromBytes(calls[c].body)
        /\ manifestBlobKey(Sha256Hex(calls[d].body)) \in DOMAIN objects
        /\ manifestBlobKey(Sha256Hex(calls[c].body)) \in DOMAIN objects

\* C37: when two putManifest calls for the same name and reference with
\* different bytes have both returned success, none of their calls having
\* failed, the manifest of the tag in the index is the bytes of the blob
\* whose digest the tag's current/link holds.
C37_IndexAndBucketAgree ==
    \A c, d \in DOMAIN calls :
        (/\ c # d
         /\ calls[c].done /\ calls[c].err = Nil /\ calls[c].fail = "none"
         /\ calls[d].done /\ calls[d].err = Nil /\ calls[d].fail = "none"
         /\ calls[c].name = calls[d].name /\ calls[c].ref = calls[d].ref
         /\ calls[c].body # calls[d].body)
        => LET link == objects[metaKey(calls[c].name, calls[c].ref)]
           IN  GetManifest(Ix, calls[c].name, calls[c].ref).manifestJSON
                   = objects[manifestBlobKey(Hex(link))]

\* C37 divergence: both puts returned 201 with no failed call; the tag's
\* link holds the digest of the bytes of b and the index holds the bytes
\* of a.
C37_Diverges ==
    /\ DOMAIN calls = {"a", "b"}
    /\ \A c \in DOMAIN calls :
          calls[c].done /\ calls[c].err = Nil /\ calls[c].fail = "none"
    /\ calls["a"].ref = calls["b"].ref
    /\ calls["a"].body = ManifestM1
    /\ calls["b"].body = ManifestM2
    /\ objects[metaKey("lib/app", calls["a"].ref)] = FromBytes(ManifestM2)
    /\ GetManifest(Ix, "lib/app", calls["a"].ref).manifestJSON = ManifestM1

---------------------------------------------------------------------------
(* Properties of chunks that are served at the same time *)

\* The chunk requests that have returned and whose responses are not yet sent
ChunksDone == {c \in DOMAIN calls : calls[c].op = "uploadChunk" /\ calls[c].done}

\* C32: of two uploadChunk calls on the same upload id with the same offset,
\* at most one returns success; and when no chunk of a session is in
\* progress, its uploaded_size is the number of bytes of the chunks that
\* returned success.
C32_ChunksAreSerial ==
    /\ \A c, d \in ChunksDone :
          (c # d /\ calls[c].ref = calls[d].ref /\ calls[c].offset = calls[d].offset)
              => ~(calls[c].err = Nil /\ calls[d].err = Nil)
    /\ \A u \in DOMAIN sessions \cap DOMAIN accepted :
          (\A c \in DOMAIN calls : calls[c].ref = u => calls[c].done)
              => sessions[u].uploaded_size = ByteLen(Concat(accepted[u]))

\* C32 divergence: two chunks of 100 bytes at offset 0 of the same session
\* both returned 202; each was uploaded as part 1 of a multipart upload of
\* its own, and the session counts 100 bytes.
C32_Diverges ==
    /\ ChunksDone = {"a", "b"}
    /\ \A c \in ChunksDone :
          /\ calls[c].err = Nil
          /\ calls[c].ref = "uuid-1"
          /\ calls[c].offset = 0
          /\ calls[c].written = 100
    /\ \E i, j \in MpusOf("uuid-1") :
          /\ i # j
          /\ mpus[i].parts = <<<<"s">>>>
          /\ mpus[j].parts = <<<<"s">>>>
    /\ sessions["uuid-1"].uploaded_size = 100
    /\ ByteLen(Concat(accepted["uuid-1"])) = 200

====
